---- MODULE Spec2Model ----
(***************************************************************************)
(* A model of libshsqlite: the SQLite virtual table "shsqlite" over the    *)
(* Soracom Harvest Data API.                                               *)
(*                                                                         *)
(* Strings are sequences of characters; a character is a one-character     *)
(* TLA+ string.  Signed and unsigned integers are TLA+ integers; decimal   *)
(* parsing and formatting are computed digit by digit.                     *)
(***************************************************************************)
EXTENDS Integers, Sequences, FiniteSets, TLC

(***************************************************************************)
(* Characters                                                              *)
(***************************************************************************)

\* The ASCII printable characters 0x20..0x7E, in code point order ("<grave>"
\* stands for the character 0x60).
Printable ==
  << " ", "!", "\"", "#", "$", "%", "&", "'", "(", ")", "*", "+", ",", "-",
     ".", "/", "0", "1", "2", "3", "4", "5", "6", "7", "8", "9", ":", ";",
     "<", "=", ">", "?", "@", "A", "B", "C", "D", "E", "F", "G", "H", "I",
     "J", "K", "L", "M", "N", "O", "P", "Q", "R", "S", "T", "U", "V", "W",
     "X", "Y", "Z", "[", "\\", "]", "^", "_", "<grave>", "a", "b", "c", "d", "e",
     "f", "g", "h", "i", "j", "k", "l", "m", "n", "o", "p", "q", "r", "s",
     "t", "u", "v", "w", "x", "y", "z", "{", "|", "}", "~" >>

PrintableSet == { Printable[i] : i \in 1..Len(Printable) }

\* Code point of a character (printable ASCII, tab and line feed).
OrdTable ==
  [ c \in PrintableSet \cup {"\t", "\n"} |->
      IF c = "\t" THEN 9
      ELSE IF c = "\n" THEN 10
      ELSE 31 + (CHOOSE i \in 1..Len(Printable) : Printable[i] = c) ]

Ord(c) == OrdTable[c]

\* The character of a printable code point.
Chr(n) == Printable[n - 31]

IsUpper(c) == Ord(c) >= Ord("A") /\ Ord(c) <= Ord("Z")

\* char::to_lowercase / the regex's (?i) folding, on ASCII.
ToLower(c) == IF IsUpper(c) THEN Chr(Ord(c) + 32) ELSE c

to_lowercase(s) == [ i \in 1..Len(s) |-> ToLower(s[i]) ]

IsDigit(c) == Ord(c) >= Ord("0") /\ Ord(c) <= Ord("9")

DigitVal(c) == Ord(c) - Ord("0")

\* \s of the regex
IsSpace(c) == c \in {" ", "\t", "\n"}

\* ['"] of the regex
IsQuote(c) == c \in {"'", "\""}

(***************************************************************************)
(* Decimal parsing and formatting                                          *)
(***************************************************************************)

RECURSIVE StripZeros(_)
StripZeros(d) ==
  IF Len(d) > 1 /\ d[1] = "0" THEN StripZeros(Tail(d)) ELSE d

\* d <= m for two digit strings without leading zeros
RECURSIVE DigitsLeq(_, _)
DigitsLeq(d, m) ==
  IF Len(d) # Len(m) THEN Len(d) < Len(m)
  ELSE IF d = <<>> THEN TRUE
  ELSE IF d[1] # m[1] THEN DigitVal(d[1]) < DigitVal(m[1])
  ELSE DigitsLeq(Tail(d), Tail(m))

RECURSIVE DigitsValue(_, _)
DigitsValue(d, acc) ==
  IF d = <<>> THEN acc ELSE DigitsValue(Tail(d), 10 * acc + DigitVal(d[1]))

I64MaxDigits ==
  << "9","2","2","3","3","7","2","0","3","6","8","5","4","7","7","5","8","0","7" >>
I64MinDigits ==
  << "9","2","2","3","3","7","2","0","3","6","8","5","4","7","7","5","8","0","8" >>
U32MaxDigits == << "4","2","9","4","9","6","7","2","9","5" >>

AllDigits(d) == d # <<>> /\ \A i \in 1..Len(d) : IsDigit(d[i])

\* str::parse::<i64>(): an optional sign, then one or more decimal digits,
\* within the range of the type.
ParseI64(s) ==
  LET Digits(d, neg) ==
        IF ~AllDigits(d) THEN [ok |-> FALSE, val |-> 0]
        ELSE IF ~DigitsLeq(StripZeros(d), IF neg THEN I64MinDigits ELSE I64MaxDigits)
             THEN [ok |-> FALSE, val |-> 0]
        ELSE [ok |-> TRUE,
              val |-> IF neg THEN 0 - DigitsValue(d, 0) ELSE DigitsValue(d, 0)]
  IN  IF s # <<>> /\ s[1] \in {"+", "-"} THEN Digits(Tail(s), s[1] = "-")
      ELSE Digits(s, FALSE)

\* str::parse::<u32>(): an optional plus sign, then decimal digits, in range.
ParseU32(s) ==
  LET Digits(d) ==
        IF ~AllDigits(d) THEN [ok |-> FALSE, val |-> 0]
        ELSE IF ~DigitsLeq(StripZeros(d), U32MaxDigits) THEN [ok |-> FALSE, val |-> 0]
        ELSE [ok |-> TRUE, val |-> DigitsValue(d, 0)]
  IN  Digits(IF s # <<>> /\ s[1] = "+" THEN Tail(s) ELSE s)

RECURSIVE NatToString(_)
NatToString(n) ==
  IF n < 10 THEN << Chr(Ord("0") + n) >>
  ELSE Append(NatToString(n \div 10), Chr(Ord("0") + (n % 10)))

\* i64::to_string()
to_string(i) == IF i < 0 THEN <<"-">> \o NatToString(0 - i) ELSE NatToString(i)

(***************************************************************************)
(* Endpoint                                                                *)
(***************************************************************************)

\* impl From<&str> for Endpoint
\* The conversion comparing the text as it is written, without lowering it.
EndpointFrom_exact(s) ==
  IF s \in { <<"g">>, <<"g","l","o","b","a","l">> } THEN "Global"
  ELSE IF s \in { <<"j","p">>, <<"j","a","p","a","n">> } THEN "Japan"
  ELSE "Global"

EndpointFrom(s) ==
  LET Match(l) ==
        IF l \in { <<"g">>, <<"g","l","o","b","a","l">> } THEN "Global"
        ELSE IF l \in { <<"j","p">>, <<"j","a","p","a","n">> } THEN "Japan"
        ELSE "Global"
  IN  Match(to_lowercase(s))

\* impl Default for Endpoint
EndpointDefault == "Global"

(***************************************************************************)
(* Argument parser                                                         *)
(***************************************************************************)

\* The key alternation of the regex: (IMSI|COVERAGE|FROM|TO|LIMIT)
KeyWords ==
  { <<"I","M","S","I">>, <<"C","O","V","E","R","A","G","E">>,
    <<"F","R","O","M">>, <<"T","O">>, <<"L","I","M","I","T">> }

HasKeyPrefix(s, k) ==
  Len(s) >= Len(k) /\ to_lowercase(SubSeq(s, 1, Len(k))) = to_lowercase(k)

\* Number of leading whitespace characters of s.
LeadingSpaces(s) ==
  CHOOSE m \in 0..Len(s) :
    /\ \A i \in 1..m : IsSpace(s[i])
    /\ (m = Len(s) \/ ~IsSpace(s[m + 1]))

\* The part of the regex after the key, \s+['"]([^'"]+)['"]$, matched against
\* what follows the key: whitespace, then a quoted, non-empty run of
\* characters that are not quotes.
QuotedValue(rest) ==
  LET Quoted(n, body) ==
        IF /\ n >= 1
           /\ Len(body) >= 3
           /\ IsQuote(body[1])
           /\ IsQuote(body[Len(body)])
           /\ \A i \in 2..(Len(body) - 1) : ~IsQuote(body[i])
        THEN [matched |-> TRUE, value |-> SubSeq(body, 2, Len(body) - 1)]
        ELSE [matched |-> FALSE, value |-> <<>>]
      After(n) == Quoted(n, SubSeq(rest, n + 1, Len(rest)))
  IN  After(LeadingSpaces(rest))

\* Regex captures of (?i)^(IMSI|COVERAGE|FROM|TO|LIMIT)\s+['"]([^'"]+)['"]$
RegexCaptures(input) ==
  LET Captures(k, q) ==
        IF q.matched
        THEN [matched |-> TRUE, key |-> SubSeq(input, 1, Len(k)), value |-> q.value]
        ELSE [matched |-> FALSE, key |-> <<>>, value |-> <<>>]
      WithKey(k) == Captures(k, QuotedValue(SubSeq(input, Len(k) + 1, Len(input))))
  IN  IF \E k \in KeyWords : HasKeyPrefix(input, k)
      THEN WithKey(CHOOSE k \in KeyWords : HasKeyPrefix(input, k))
      ELSE [matched |-> FALSE, key |-> <<>>, value |-> <<>>]

OptOk(kind, s, n, e) ==
  [ok |-> TRUE, kind |-> kind, s |-> s, n |-> n, e |-> e, err |-> "none"]
OptErr(err) ==
  [ok |-> FALSE, kind |-> "none", s |-> <<>>, n |-> 0, e |-> "Global", err |-> err]

\* The arms of parse_option's match on the lower-cased key.
OptionOf(key, value) ==
  LET I64(kind, err, r) ==
        IF r.ok THEN OptOk(kind, <<>>, r.val, "Global") ELSE OptErr(err)
  IN  IF key = <<"i","m","s","i">> THEN OptOk("Imsi", value, 0, "Global")
      ELSE IF key = <<"c","o","v","e","r","a","g","e">>
           THEN OptOk("Coverage", <<>>, 0, EndpointFrom(value))
      ELSE IF key = <<"f","r","o","m">> THEN I64("From", "InvalidFrom", ParseI64(value))
      ELSE IF key = <<"t","o">> THEN I64("To", "InvalidTo", ParseI64(value))
      ELSE IF key = <<"l","i","m","i","t">>
           THEN I64("Limit", "InvalidLimit", ParseU32(value))
      ELSE OptErr("UnknownOption")

parse_option(input) ==
  LET Parsed(cap) ==
        IF ~cap.matched THEN OptErr("UnknownOption")
        ELSE OptionOf(to_lowercase(cap.key), cap.value)
  IN  Parsed(RegexCaptures(input))

(***************************************************************************)
(* Argument strings of the model                                           *)
(***************************************************************************)

Str_shsqlite == << "s","h","s","q","l","i","t","e" >>
Str_main == << "m","a","i","n" >>
Str_harvest_data == << "h","a","r","v","e","s","t","_","d","a","t","a" >>

Arg_IMSI_1 == << "I","M","S","I"," ","'","1","'" >>
Arg_FROM_1 == << "F","R","O","M"," ","'","1","'" >>
Arg_LIMIT_1 == << "L","I","M","I","T"," ","'","1","'" >>
Arg_COVERAGE_japan ==
  << "C","O","V","E","R","A","G","E"," ","'","j","a","p","a","n","'" >>

\* argv[0..2] as the engine supplies them: module, database and table name.
EngineArgs == << Str_shsqlite, Str_main, Str_harvest_data >>

\* The argument lists of CREATE VIRTUAL TABLE ... USING shsqlite(...)
CreateArgvs ==
  { EngineArgs,
    EngineArgs \o << Arg_IMSI_1 >>,
    EngineArgs \o << Arg_COVERAGE_japan, Arg_IMSI_1, Arg_FROM_1 >>,
    EngineArgs \o << Arg_IMSI_1, Arg_FROM_1, Arg_LIMIT_1 >> }

Arg_imsi_2 == << "i","m","s","i"," ","\"","2","\"" >>
Arg_IMSI_mixed == << "I","M","S","I"," ","'","3","\"" >>
Arg_IMSI_empty == << "I","M","S","I"," ","'","'" >>
Arg_COVERAGE_x == << "C","O","V","E","R","A","G","E"," ","'","x","'" >>
Arg_FROM_5 == << "F","R","O","M"," ","'","5","'" >>
Arg_FROM_0 == << "F","R","O","M"," ","'","0","'" >>
Arg_FROM_x == << "F","R","O","M"," ","'","x","'" >>
Arg_TO_7 == << "T","O","\t","'","7","'" >>
Arg_TO_0 == << "T","O"," ","'","0","'" >>
Arg_LIMIT_5 == << "L","I","M","I","T"," ","'","5","'" >>
Arg_LIMIT_0 == << "L","I","M","I","T"," ","'","0","'" >>
Arg_LIMIT_1001 == << "L","I","M","I","T"," ","'","1","0","0","1","'" >>
Arg_LIMIT_neg == << "L","I","M","I","T"," ","'","-","1","'" >>
Arg_FOO == << "F","O","O"," ","'","1","'" >>

\* The argument COVERAGE '<v>'
CoverageArg(v) ==
  << "C","O","V","E","R","A","G","E"," ","'" >> \o v \o << "'" >>

\* The arguments the argument lists under test are made of.
ArgPool ==
  << Arg_IMSI_1, Arg_imsi_2, Arg_IMSI_mixed, Arg_IMSI_empty,
     Arg_COVERAGE_japan, Arg_COVERAGE_x, CoverageArg(<< "J","p" >>),
     CoverageArg(<< "G" >>), CoverageArg(<< "G","l","o","b","a","l" >>),
     Arg_FROM_5, Arg_FROM_0, Arg_FROM_x, Arg_TO_7, Arg_TO_0,
     Arg_LIMIT_5, Arg_LIMIT_0, Arg_LIMIT_1001, Arg_LIMIT_neg, Arg_FOO >>

\* parse_option of the model's argument strings, evaluated once.
ParseOptionMemo ==
  [ a \in { ArgPool[k] : k \in 1..Len(ArgPool) }
          \cup { EngineArgs[k] : k \in 1..Len(EngineArgs) }
          \cup { Arg_LIMIT_1, Arg_FROM_1 }
      |-> parse_option(a) ]

ParseOption(arg) == ParseOptionMemo[arg]

DefaultLimit == 100
DayMillis == 86400000
LimitMin == 1
LimitMax == 1000

\* The loop with an argument that fails to parse discarding what the
\* arguments before it set, instead of being skipped.
ApplyOption_reset(acc, arg) ==
  LET Apply(o) ==
        IF ~o.ok THEN [imsi |-> <<>>, endpoint |-> "Global",
                       from |-> 0, to |-> 0, limit |-> 100]
        ELSE IF o.kind = "Imsi" THEN [acc EXCEPT !.imsi = o.s]
        ELSE IF o.kind = "Coverage" THEN [acc EXCEPT !.endpoint = o.e]
        ELSE IF o.kind = "From" THEN [acc EXCEPT !.from = o.n]
        ELSE IF o.kind = "To" THEN [acc EXCEPT !.to = o.n]
        ELSE [acc EXCEPT !.limit = o.n]
  IN  Apply(ParseOption(arg))

\* The loop of collect_options_from_args: one argument applied to the
\* accumulated (imsi, endpoint, from, to, limit).
ApplyOption(acc, arg) ==
  LET Apply(o) ==
        IF ~o.ok THEN acc
        ELSE IF o.kind = "Imsi" THEN [acc EXCEPT !.imsi = o.s]
        ELSE IF o.kind = "Coverage" THEN [acc EXCEPT !.endpoint = o.e]
        ELSE IF o.kind = "From" THEN [acc EXCEPT !.from = o.n]
        ELSE IF o.kind = "To" THEN [acc EXCEPT !.to = o.n]
        ELSE [acc EXCEPT !.limit = o.n]
  IN  Apply(ParseOption(arg))

\* The loop leaving at the first IMSI it takes, so that whatever follows
\* it is not read.
RECURSIVE ScanArgs_until_imsi(_, _)
ScanArgs_until_imsi(acc, argv) ==
  IF argv = <<>> \/ acc.imsi # <<>> THEN acc
  ELSE ScanArgs_until_imsi(ApplyOption(acc, Head(argv)), Tail(argv))

RECURSIVE ScanArgs(_, _)
ScanArgs(acc, argv) ==
  IF argv = <<>> THEN acc ELSE ScanArgs(ApplyOption(acc, Head(argv)), Tail(argv))

ArgsErr(err) ==
  [ok |-> FALSE, err |-> err, imsi |-> <<>>, endpoint |-> "Global",
   from |-> 0, to |-> 0, limit |-> 0]

\* collect_options_from_args without the check that an IMSI was given.
collect_options_from_args_unchecked(argv, now1, now2) ==
  LET Checked(acc) ==
        [ok |-> TRUE, err |-> "none", imsi |-> acc.imsi,
         endpoint |-> acc.endpoint,
         from |-> IF acc.from = 0 THEN now1 - DayMillis ELSE acc.from,
         to |-> IF acc.to = 0 THEN now2 ELSE acc.to,
         limit |-> acc.limit]
  IN  Checked(ScanArgs([imsi |-> <<>>, endpoint |-> EndpointDefault,
                        from |-> 0, to |-> 0, limit |-> DefaultLimit], argv))

\* collect_options_from_args rejecting a limit below 1 or above 1000.
collect_options_from_args_ranged(argv, now1, now2) ==
  LET Checked(acc) ==
        IF acc.imsi = <<>> THEN ArgsErr("NoImsi")
        ELSE IF acc.limit < LimitMin \/ acc.limit > LimitMax
             THEN ArgsErr("InvalidLimit")
        ELSE [ok |-> TRUE, err |-> "none", imsi |-> acc.imsi,
              endpoint |-> acc.endpoint,
              from |-> IF acc.from = 0 THEN now1 - DayMillis ELSE acc.from,
              to |-> IF acc.to = 0 THEN now2 ELSE acc.to,
              limit |-> acc.limit]
  IN  Checked(ScanArgs([imsi |-> <<>>, endpoint |-> EndpointDefault,
                        from |-> 0, to |-> 0, limit |-> DefaultLimit], argv))

\* collect_options_from_args(argc, argv); now1 and now2 are the two readings
\* of Utc::now() in milliseconds.
collect_options_from_args(argv, now1, now2) ==
  LET Checked(acc) ==
        IF acc.imsi = <<>> THEN ArgsErr("NoImsi")
        ELSE IF acc.limit < LimitMin /\ acc.limit > LimitMax
             THEN ArgsErr("InvalidLimit")
        ELSE [ok |-> TRUE, err |-> "none", imsi |-> acc.imsi,
              endpoint |-> acc.endpoint,
              from |-> IF acc.from = 0 THEN now1 - DayMillis ELSE acc.from,
              to |-> IF acc.to = 0 THEN now2 ELSE acc.to,
              limit |-> acc.limit]
  IN  Checked(ScanArgs([imsi |-> <<>>, endpoint |-> EndpointDefault,
                        from |-> 0, to |-> 0, limit |-> DefaultLimit], argv))

(***************************************************************************)
(* Content decoder (SoracomHarvestClient::try_decode)                      *)
(***************************************************************************)

\* Characters outside printable ASCII that the model's inputs can decode to,
\* by code point.
ExtraChars == { <<321, "U+0141">>, <<233, "U+00E9">> }

\* The character of a code point.
CharOf(cp) ==
  IF cp >= 32 /\ cp <= 126 THEN Chr(cp)
  ELSE IF cp = 9 THEN "\t"
  ELSE IF cp = 10 THEN "\n"
  ELSE (CHOOSE e \in ExtraChars : e[1] = cp)[2]

HasChar(cp) ==
  (cp >= 32 /\ cp <= 126) \/ cp \in {9, 10} \/ \E e \in ExtraChars : e[1] = cp

\* JSON insignificant whitespace
IsJsonWs(c) == c \in {" ", "\t", "\n"}

\* Index of the first character of s at or after i that is not whitespace
\* (Len(s) + 1 when there is none).
SkipWs(s, i) ==
  CHOOSE j \in i..(Len(s) + 1) :
    /\ \A k \in i..(j - 1) : IsJsonWs(s[k])
    /\ (j = Len(s) + 1 \/ ~IsJsonWs(s[j]))

JFail == [ok |-> FALSE, str |-> <<>>, isStr |-> FALSE, next |-> 0]

\* A JSON string starting at s[i]; strings with escape sequences are outside
\* the modelled subset of JSON.
JString(s, i) ==
  LET Closed(j) ==
        IF \E k \in (i + 1)..(j - 1) : s[k] = "\\" THEN JFail
        ELSE [ok |-> TRUE, str |-> SubSeq(s, i + 1, j - 1), isStr |-> TRUE,
              next |-> j + 1]
  IN  IF i > Len(s) \/ s[i] # "\"" THEN JFail
      ELSE IF \A j \in (i + 1)..Len(s) : s[j] # "\"" THEN JFail
      ELSE Closed(CHOOSE j \in (i + 1)..Len(s) :
                    s[j] = "\"" /\ \A k \in (i + 1)..(j - 1) : s[k] # "\"")

\* A JSON integer starting at s[i]: -? (0 | [1-9][0-9]*)
JNumber(s, i) ==
  LET Digits(st, en) ==
        IF en = st \/ (en > st + 1 /\ s[st] = "0") THEN JFail
        ELSE [ok |-> TRUE, str |-> <<>>, isStr |-> FALSE, next |-> en]
      From(st) ==
        Digits(st, CHOOSE j \in st..(Len(s) + 1) :
                     /\ \A k \in st..(j - 1) : IsDigit(s[k])
                     /\ (j = Len(s) + 1 \/ ~IsDigit(s[j])))
  IN  From(IF i <= Len(s) /\ s[i] = "-" THEN i + 1 ELSE i)

JLiterals == { <<"t","r","u","e">>, <<"f","a","l","s","e">>, <<"n","u","l","l">> }

JLiteral(s, i) ==
  LET Is(l) == i + Len(l) - 1 <= Len(s) /\ SubSeq(s, i, i + Len(l) - 1) = l
  IN  IF \E l \in JLiterals : Is(l)
      THEN [ok |-> TRUE, str |-> <<>>, isStr |-> FALSE,
            next |-> i + Len(CHOOSE l \in JLiterals : Is(l))]
      ELSE JFail

\* A scalar JSON value starting at s[i] (nested containers are outside the
\* modelled subset).
JValue(s, i) ==
  IF i > Len(s) THEN JFail
  ELSE IF s[i] = "\"" THEN JString(s, i)
  ELSE IF s[i] = "-" \/ IsDigit(s[i]) THEN JNumber(s, i)
  ELSE JLiteral(s, i)

PayloadKey == <<"p","a","y","l","o","a","d">>

PFail == [ok |-> FALSE, payload |-> <<>>]

\* The members of a JSON object from s[i] (just after "{" or ","), as the
\* derived Deserialize of Base64EncodedPayload visits them: "payload" must
\* be a string and occur once, every other key is ignored.
RECURSIVE JMembers(_, _, _, _)
JMembers(s, i, seen, payload) ==
  LET End(e, seen2, pay2) ==
        IF e > Len(s) THEN PFail
        ELSE IF s[e] = "," THEN JMembers(s, e + 1, seen2, pay2)
        ELSE IF s[e] = "}" /\ SkipWs(s, e + 1) = Len(s) + 1 /\ seen2
             THEN [ok |-> TRUE, payload |-> pay2]
        ELSE PFail
      Member(k, v) ==
        IF ~v.ok THEN PFail
        ELSE IF k.str = PayloadKey /\ (seen \/ ~v.isStr) THEN PFail
        ELSE End(SkipWs(s, v.next), seen \/ k.str = PayloadKey,
                 IF k.str = PayloadKey THEN v.str ELSE payload)
      Colon(k, c) ==
        IF c > Len(s) \/ s[c] # ":" THEN PFail
        ELSE Member(k, JValue(s, SkipWs(s, c + 1)))
      Key(k) == IF ~k.ok THEN PFail ELSE Colon(k, SkipWs(s, k.next))
  IN  Key(JString(s, SkipWs(s, i)))

\* serde_json::from_str::<Base64EncodedPayload>(content): a JSON object with
\* a string field "payload", or a JSON array of exactly that one string.
ParsePayload(s) ==
  LET Close(v, e) ==
        IF e <= Len(s) /\ s[e] = "]" /\ SkipWs(s, e + 1) = Len(s) + 1
        THEN [ok |-> TRUE, payload |-> v.str]
        ELSE PFail
      Element(v) == IF ~v.ok THEN PFail ELSE Close(v, SkipWs(s, v.next))
      Object(i, m) ==
        IF m <= Len(s) /\ s[m] = "}" THEN PFail
        ELSE JMembers(s, i + 1, FALSE, <<>>)
      At(i) ==
        IF i > Len(s) THEN PFail
        ELSE IF s[i] = "{" THEN Object(i, SkipWs(s, i + 1))
        ELSE IF s[i] = "[" THEN Element(JString(s, SkipWs(s, i + 1)))
        ELSE PFail
  IN  At(SkipWs(s, 1))

\* The value of a symbol of the standard base64 alphabet, -1 for any other
\* character.
B64Val(c) ==
  IF c \notin PrintableSet THEN -1
  ELSE IF IsUpper(c) THEN Ord(c) - Ord("A")
  ELSE IF Ord(c) >= Ord("a") /\ Ord(c) <= Ord("z") THEN Ord(c) - Ord("a") + 26
  ELSE IF IsDigit(c) THEN Ord(c) - Ord("0") + 52
  ELSE IF c = "+" THEN 62
  ELSE IF c = "/" THEN 63
  ELSE -1

\* The bytes of the complete 4-symbol groups of v (a sequence of 6-bit values).
RECURSIVE B64Groups(_)
B64Groups(v) ==
  LET Bytes(n) == << n \div 65536, (n \div 256) % 256, n % 256 >>
  IN  IF Len(v) < 4 THEN <<>>
      ELSE Bytes(((v[1] * 64 + v[2]) * 64 + v[3]) * 64 + v[4])
             \o B64Groups(SubSeq(v, 5, Len(v)))

\* base64::decode with the standard alphabet and canonical padding: the
\* length is a multiple of 4, "=" occurs only as the last one or two
\* characters, and the bits that the last symbol does not use are zero.
Base64Decode(s) ==
  LET Tail2(full, rest) ==
        IF Len(rest) = 0 THEN [ok |-> TRUE, bytes |-> B64Groups(full)]
        ELSE IF Len(rest) = 3 THEN
               IF rest[3] % 4 # 0 THEN [ok |-> FALSE, bytes |-> <<>>]
               ELSE [ok |-> TRUE,
                     bytes |-> B64Groups(full)
                       \o << rest[1] * 4 + rest[2] \div 16,
                             (rest[2] % 16) * 16 + rest[3] \div 4 >>]
        ELSE IF rest[2] % 16 # 0 THEN [ok |-> FALSE, bytes |-> <<>>]
             ELSE [ok |-> TRUE,
                   bytes |-> B64Groups(full) \o << rest[1] * 4 + rest[2] \div 16 >>]
      Symbols(sym) ==
        IF Len(s) % 4 # 0 \/ (\E i \in 1..Len(sym) : sym[i] < 0)
        THEN [ok |-> FALSE, bytes |-> <<>>]
        ELSE Tail2(SubSeq(sym, 1, (Len(sym) \div 4) * 4),
                   SubSeq(sym, (Len(sym) \div 4) * 4 + 1, Len(sym)))
      Padded(pads) == Symbols([ i \in 1..(Len(s) - pads) |-> B64Val(s[i]) ])
  IN  Padded(IF Len(s) >= 2 /\ s[Len(s)] = "=" /\ s[Len(s) - 1] = "=" THEN 2
             ELSE IF Len(s) >= 1 /\ s[Len(s)] = "=" THEN 1 ELSE 0)

IsCont(b) == b >= 128 /\ b <= 191

\* String::from_utf8: the code points of a byte sequence, or failure.
RECURSIVE FromUtf8(_)
FromUtf8(b) ==
  LET Cons(cp, r) == IF r.ok THEN [ok |-> TRUE, chars |-> <<cp>> \o r.chars] ELSE r
      Decode(len) ==
        IF ~(/\ len > 0
             /\ Len(b) >= len
             /\ \A k \in 2..len : IsCont(b[k])
             /\ (b[1] = 224 => b[2] >= 160)
             /\ (b[1] = 237 => b[2] <= 159)
             /\ (b[1] = 240 => b[2] >= 144)
             /\ (b[1] = 244 => b[2] <= 143))
        THEN [ok |-> FALSE, chars |-> <<>>]
        ELSE Cons(IF len = 1 THEN b[1]
                  ELSE IF len = 2 THEN (b[1] % 32) * 64 + (b[2] % 64)
                  ELSE IF len = 3
                       THEN ((b[1] % 16) * 64 + (b[2] % 64)) * 64 + (b[3] % 64)
                  ELSE (((b[1] % 8) * 64 + (b[2] % 64)) * 64 + (b[3] % 64)) * 64
                         + (b[4] % 64),
                  FromUtf8(SubSeq(b, len + 1, Len(b))))
  IN  IF b = <<>> THEN [ok |-> TRUE, chars |-> <<>>]
      ELSE Decode(IF b[1] < 128 THEN 1
                  ELSE IF b[1] >= 194 /\ b[1] <= 223 THEN 2
                  ELSE IF b[1] >= 224 /\ b[1] <= 239 THEN 3
                  ELSE IF b[1] >= 240 /\ b[1] <= 244 THEN 4
                  ELSE 0)

\* The range test without the space: 0x21..=0x7E.
IsPrintableAsU8_graphic(cp) == (cp % 256) >= 33 /\ (cp % 256) <= 126

\* matches!(c as u8, 0x20..=0x7E): the cast keeps the low 8 bits of the code
\* point.
IsPrintableAsU8(cp) == (cp % 256) >= 32 /\ (cp % 256) <= 126

ValuePrefix == << "{", "\"", "v", "a", "l", "u", "e", "\"", ":", "\"" >>
ValueSuffix == << "\"", "}" >>

try_decode(content) ==
  LET Text(u) ==
        IF ~u.ok THEN content
        ELSE IF \A i \in 1..Len(u.chars) : IsPrintableAsU8(u.chars[i])
             THEN ValuePrefix \o [ i \in 1..Len(u.chars) |-> CharOf(u.chars[i]) ]
                    \o ValueSuffix
        ELSE content
      Bytes(d) == IF ~d.ok THEN content ELSE Text(FromUtf8(d.bytes))
      Payload(p) == IF ~p.ok THEN content ELSE Bytes(Base64Decode(p.payload))
  IN  Payload(ParsePayload(content))

(***************************************************************************)
(* Remote data source and API client                                       *)
(***************************************************************************)

Str_application_json ==
  << "a","p","p","l","i","c","a","t","i","o","n","/","j","s","o","n" >>
Str_text_plain == << "t","e","x","t","/","p","l","a","i","n" >>

\* {"payload":"aGVsbG8="}
Str_payload_hello ==
  << "{","\"","p","a","y","l","o","a","d","\"",":","\"",
     "a","G","V","s","b","G","8","=","\"","}" >>
\* {"temperature":20}
Str_temperature ==
  << "{","\"","t","e","m","p","e","r","a","t","u","r","e","\"",":","2","0","}" >>

\* Bounds of the model.
MaxLen == 2
MaxCreates == 2
MaxTables == 1
MaxCursors == 1
MaxIndex == 3
MaxOrdinal == 3

\* The entries the remote source can hold, as it returns them (raw).
EntryPool ==
  << [time |-> 1000, content_type |-> Str_application_json,
      content |-> Str_payload_hello],
     [time |-> 900, content_type |-> Str_application_json,
      content |-> Str_temperature],
     [time |-> 800, content_type |-> Str_text_plain, content |-> <<"0","0","7">>],
     [time |-> 700, content_type |-> <<"4","2">>, content |-> <<"-","5">>] >>

\* The stores of the remote source: at most MaxLen entries, latest first
\* (the pool is ordered latest first; a store is a subsequence of it).
RECURSIVE SubSeqsOf(_, _)
SubSeqsOf(pool, n) ==
  IF pool = <<>> \/ n = 0 THEN { <<>> }
  ELSE SubSeqsOf(Tail(pool), n)
         \cup { <<Head(pool)>> \o r : r \in SubSeqsOf(Tail(pool), n - 1) }

RemoteStores == SubSeqsOf(EntryPool, MaxLen)

RECURSIVE SelectSeq2(_, _, _)
SelectSeq2(q, from, to) ==
  IF q = <<>> THEN <<>>
  ELSE IF Head(q).time >= from /\ Head(q).time <= to
       THEN <<Head(q)>> \o SelectSeq2(Tail(q), from, to)
       ELSE SelectSeq2(Tail(q), from, to)

\* The remote source's answer to GET /v1/data/Subscriber/{imsi}
\* ?from&to&sort=desc&limit: the entries in the time range, latest first,
\* at most `limit` of them.
RemoteFetch(store, from, to, limit) ==
  LET hit == SelectSeq2(store, from, to)
  IN  IF Len(hit) > limit THEN SubSeq(hit, 1, limit) ELSE hit

\* SoracomHarvestClient::auth: POST /v1/auth, then the JSON response as an
\* AuthResponse.  `outcome` is what the remote does: "ok", "rejected" (an
\* error body without apiKey/token) or "transport" (the request fails).
auth(client, outcome) ==
  IF outcome = "ok" THEN [ok |-> TRUE, err |-> "none"]
  ELSE IF outcome = "transport" THEN [ok |-> FALSE, err |-> "RequestSend"]
  ELSE [ok |-> FALSE, err |-> "RequestDecode"]

\* try_decode of the contents of the model's entries, evaluated once.
TryDecodeMemo ==
  [ c \in { EntryPool[k].content : k \in 1..Len(EntryPool) } |-> try_decode(c) ]

TryDecode(content) == TryDecodeMemo[content]

\* get_data_entries' loop without the decoding step.
DecodeAll_raw(resp) == resp

\* The loop of get_data_entries: try_decode applied to every entry's content.
DecodeAll(resp) ==
  [ i \in 1..Len(resp) |->
      [time |-> resp[i].time, content_type |-> resp[i].content_type,
       content |-> TryDecode(resp[i].content)] ]

\* SoracomHarvestClient::get_data_entries(imsi, Some(from), Some(to), Some(limit));
\* `resp` is the response of the remote as received, before decoding.
get_data_entries(client, imsi, from, to, limit, outcome, store) ==
  LET Received(resp) ==
        [ok |-> TRUE, err |-> "none", data |-> DecodeAll(resp), resp |-> resp]
  IN  IF outcome = "ok" THEN Received(RemoteFetch(store, from, to, limit))
      ELSE IF outcome = "transport"
           THEN [ok |-> FALSE, err |-> "RequestSend", data |-> <<>>, resp |-> <<>>]
      ELSE [ok |-> FALSE, err |-> "RequestDecode", data |-> <<>>, resp |-> <<>>]

\* Display of SoracomHarvestClientError (the Request variant is transparent:
\* the text is reqwest's).
Str_error_sending ==
  << "e","r","r","o","r"," ","s","e","n","d","i","n","g"," ",
     "r","e","q","u","e","s","t" >>
Str_error_decoding ==
  << "e","r","r","o","r"," ","d","e","c","o","d","i","n","g"," ",
     "r","e","s","p","o","n","s","e"," ","b","o","d","y" >>
Str_auth_failed ==
  << "F","a","i","l","e","d"," ","t","o"," ","a","u","t","h","e","n","t","i","c","a","t","e" >>

ErrorDisplay(err) ==
  IF err = "RequestSend" THEN Str_error_sending
  ELSE IF err = "RequestDecode" THEN Str_error_decoding
  ELSE Str_auth_failed

\* str::as_bytes on the model's characters
AsBytes(s) == [ i \in 1..Len(s) |-> Ord(s[i]) ]

(***************************************************************************)
(* Data client and reader (harvest_data_client.rs)                         *)
(***************************************************************************)

\* HarvestDataClient::open fetching a second time after the first fetch.
HarvestDataClient_open_refetch(hd, env) ==
  LET Fetched(g) ==
        IF ~g.ok
        THEN [ok |-> FALSE, err |-> g.err, hd |-> hd,
              reqs |-> <<"auth", "fetch">>, resp |-> <<>>]
        ELSE [ok |-> TRUE, err |-> "none", hd |-> [hd EXCEPT !.data = g.data],
              reqs |-> <<"auth", "fetch", "fetch">>, resp |-> g.resp]
      Authed(a) ==
        IF ~a.ok
        THEN [ok |-> FALSE, err |-> a.err, hd |-> hd, reqs |-> <<"auth">>,
              resp |-> <<>>]
        ELSE Fetched(get_data_entries(hd, hd.imsi, hd.from, hd.to, hd.limit,
                                      env.fetch, env.store))
  IN  Authed(auth(hd, env.auth))

\* open asking for authentication a second time when the first request
\* failed.
HarvestDataClient_open_retry(hd, env) ==
  LET Fetched(g) ==
        IF ~g.ok
        THEN [ok |-> FALSE, err |-> g.err, hd |-> hd,
              reqs |-> <<"auth", "fetch">>, resp |-> <<>>]
        ELSE [ok |-> TRUE, err |-> "none", hd |-> [hd EXCEPT !.data = g.data],
              reqs |-> <<"auth", "fetch">>, resp |-> g.resp]
      Authed(a) ==
        IF ~a.ok
        THEN [ok |-> FALSE, err |-> a.err, hd |-> hd, reqs |-> <<"auth", "auth">>,
              resp |-> <<>>]
        ELSE Fetched(get_data_entries(hd, hd.imsi, hd.from, hd.to, hd.limit,
                                      env.fetch, env.store))
  IN  Authed(auth(hd, env.auth))

\* HarvestDataClient::open: authenticate, then fetch.  `reqs` are the
\* requests sent to the remote, in order; `resp` is the fetch response as
\* received.
HarvestDataClient_open(hd, env) ==
  LET Fetched(g) ==
        IF ~g.ok
        THEN [ok |-> FALSE, err |-> g.err, hd |-> hd,
              reqs |-> <<"auth", "fetch">>, resp |-> <<>>]
        ELSE [ok |-> TRUE, err |-> "none", hd |-> [hd EXCEPT !.data = g.data],
              reqs |-> <<"auth", "fetch">>, resp |-> g.resp]
      Authed(a) ==
        IF ~a.ok
        THEN [ok |-> FALSE, err |-> a.err, hd |-> hd, reqs |-> <<"auth">>,
              resp |-> <<>>]
        ELSE Fetched(get_data_entries(hd, hd.imsi, hd.from, hd.to, hd.limit,
                                      env.fetch, env.store))
  IN  Authed(auth(hd, env.auth))

\* HarvestDataReader::new
HarvestDataReader_new(data) == [data |-> data, current_index |-> 0]

\* get_reader moving the client's data into the reader instead of cloning it.
get_reader_take(hd) ==
  [reader |-> [data |-> hd.data, current_index |-> 0],
   hd |-> [hd EXCEPT !.data = <<>>]]

\* HarvestDataClient::get_reader(&mut self): the reader, and the client after
\* the call.
get_reader(hd) == [reader |-> HarvestDataReader_new(hd.data), hd |-> hd]

\* get_index counting the positions from one.
get_index_one_based(r) == r.current_index + 1

\* get_index: current_index as u32 (positions of the model are far below 2^32)
get_index(r) == r.current_index

move_next(r) == [r EXCEPT !.current_index = r.current_index + 1]

\* has_value with the bound off by one.
has_value_inclusive(r) == r.current_index <= Len(r.data)

\* Vec::get(current_index).is_some()
has_value(r) == r.current_index + 1 <= Len(r.data)

\* get_value giving the content for every ordinal.
get_value_content(r, i) ==
  IF ~has_value(r) THEN <<>> ELSE r.data[r.current_index + 1].content

get_value(r, i) ==
  IF ~has_value(r) THEN <<>>
  ELSE LET d == r.data[r.current_index + 1]
       IN  IF i = 0 THEN to_string(d.time)
           ELSE IF i = 1 THEN d.content_type
           ELSE d.content

(***************************************************************************)
(* The SQLite module (module.rs, error.rs)                                 *)
(***************************************************************************)

SQLITE_OK == 0
SQLITE_ERROR == 1
SQLITE_OK_LOAD_PERMANENTLY == 256

\* error_to_sqlite3_string sizing the buffer without the terminating NUL.
error_to_sqlite3_string_strlen(mallocOk, err) ==
  LET Copy(cstr, len) ==
        IF mallocOk
        THEN [calls |-> <<len>>, some |-> TRUE, buf |-> SubSeq(cstr, 1, len)]
        ELSE [calls |-> <<len>>, some |-> FALSE, buf |-> <<>>]
      CString(bytes) ==
        IF \E k \in 1..Len(bytes) : bytes[k] = 0
        THEN [calls |-> <<>>, some |-> FALSE, buf |-> <<>>]
        ELSE Copy(bytes \o <<0>>, Len(bytes))
  IN  CString(AsBytes(err))

\* error_to_sqlite3_string(api, err): `calls` are the sizes asked of the
\* engine's malloc, `some` says whether a pointer is returned and `buf` is
\* what the returned buffer holds.  mallocOk: the engine's malloc returns a
\* buffer (and not null).
error_to_sqlite3_string(mallocOk, err) ==
  LET Copy(cstr, len) ==
        IF mallocOk
        THEN [calls |-> <<len>>, some |-> TRUE, buf |-> SubSeq(cstr, 1, len)]
        ELSE [calls |-> <<len>>, some |-> FALSE, buf |-> <<>>]
      CString(bytes) ==
        IF \E k \in 1..Len(bytes) : bytes[k] = 0
        THEN [calls |-> <<>>, some |-> FALSE, buf |-> <<>>]
        ELSE Copy(bytes \o <<0>>, Len(bytes) + 1)
  IN  CString(AsBytes(err))

NoCell == [type |-> "none", int |-> 0, text |-> <<>>]

\* yield_cell_value handing every value over as text.
yield_cell_value_text(value) == [type |-> "text", int |-> 0, text |-> value]

\* yield_cell_value: result_int64 when the value parses as an i64, else
\* result_text.
yield_cell_value(value) ==
  LET Cell(p) ==
        IF p.ok THEN [type |-> "int", int |-> p.val, text |-> <<>>]
        ELSE [type |-> "text", int |-> 0, text |-> value]
  IN  Cell(ParseI64(value))

NoClient ==
  [endpoint |-> "Global", imsi |-> <<>>, from |-> 0, to |-> 0, limit |-> 0,
   data |-> <<>>]

\* The outcome of shsqlite_create(db, aux, argc, argv, pp_vtab, pz_err): the
\* status returned, the stage reached, whether a VirtualTable is boxed and
\* written to *pp_vtab (and the client it owns), whether declare_vtab was
\* called, whether *pz_err is written (and the message buffer), the requests
\* sent, the fetch response and the sizes asked of the engine's malloc.

\* The arm Err(_) of the match on collect_options_from_args.
create_args_err(err) ==
  [rc |-> SQLITE_ERROR, cause |-> "parse", err |-> err,
   alloc |-> FALSE, hd |-> NoClient, declared |-> FALSE,
   setErr |-> FALSE, buf |-> <<>>, reqs |-> <<>>, resp |-> <<>>, mallocs |-> <<>>]

\* The arm Ok(_) of the match on harvest_data.open(): declare_table, then
\* the boxed VirtualTable is written to *pp_vtab and declare_table's status
\* is returned.
create_open_ok(r, declareRc) ==
  [rc |-> declareRc,
   cause |-> IF declareRc = SQLITE_OK THEN "ok" ELSE "declare",
   err |-> "none", alloc |-> TRUE, hd |-> r.hd, declared |-> TRUE,
   setErr |-> FALSE, buf |-> <<>>, reqs |-> r.reqs, resp |-> r.resp,
   mallocs |-> <<>>]

\* The Err(err) arm boxing the table and writing *pp_vtab all the same.
create_open_err_boxed(r, mallocOk) ==
  LET Message(m) ==
        [rc |-> SQLITE_ERROR,
         cause |-> IF Len(r.reqs) = 1 THEN "auth" ELSE "fetch",
         err |-> r.err, alloc |-> TRUE, hd |-> r.hd,
         declared |-> FALSE, setErr |-> m.some, buf |-> m.buf,
         reqs |-> r.reqs, resp |-> <<>>, mallocs |-> m.calls]
  IN  Message(error_to_sqlite3_string(mallocOk, ErrorDisplay(r.err)))

\* The arm Err(err) of the match on harvest_data.open().
create_open_err(r, mallocOk) ==
  LET Message(m) ==
        [rc |-> SQLITE_ERROR,
         cause |-> IF Len(r.reqs) = 1 THEN "auth" ELSE "fetch",
         err |-> r.err, alloc |-> FALSE, hd |-> NoClient,
         declared |-> FALSE, setErr |-> m.some, buf |-> m.buf,
         reqs |-> r.reqs, resp |-> <<>>, mallocs |-> m.calls]
  IN  Message(error_to_sqlite3_string(mallocOk, ErrorDisplay(r.err)))

\* shsqlite_create as a function of its arguments and of what its
\* collaborators do (env).
shsqlite_create(argv, env) ==
  LET Opened(r) ==
        IF r.ok THEN create_open_ok(r, env.declareRc)
        ELSE create_open_err(r, env.mallocOk)
      Parsed(o) ==
        IF ~o.ok THEN create_args_err(o.err)
        ELSE Opened(HarvestDataClient_open(
                      [endpoint |-> o.endpoint, imsi |-> o.imsi, from |-> o.from,
                       to |-> o.to, limit |-> o.limit, data |-> <<>>], env))
  IN  Parsed(collect_options_from_args(argv, env.now1, env.now2))

\* shsqlite_connect delegates to shsqlite_create.
shsqlite_connect(argv, env) == shsqlite_create(argv, env)

\* shsqlite_filter ignores every argument and returns SQLITE_OK: the reader
\* after the call.
shsqlite_filter(reader, idxNum, idxStr, argc) == reader

\* shsqlite_next
shsqlite_next(reader) == move_next(reader)

\* shsqlite_eof
shsqlite_eof(reader) == IF has_value(reader) THEN 0 ELSE 1

\* shsqlite_column: the cell handed to the engine
shsqlite_column(reader, column) == yield_cell_value(get_value(reader, column))

\* shsqlite_rowid: the value written to *p_rowid
shsqlite_rowid(reader) == get_index(reader)

\* shsqlite_best_index taking a usable constraint as the index to use.
shsqlite_best_index_use(p_vtab, info) ==
  [rc |-> SQLITE_OK,
   info |-> IF info.usable
            THEN [info EXCEPT !.argvIndex = 1, !.idxNum = 1]
            ELSE info]

\* shsqlite_best_index: the status and the sqlite3_index_info after the call
shsqlite_best_index(p_vtab, info) == [rc |-> SQLITE_OK, info |-> info]

\* shsqlite_destroy dropping the box without looking at the handle.
shsqlite_destroy_unguarded(p_vtab) ==
  [rc |-> SQLITE_OK, dropped |-> << p_vtab >>]

\* shsqlite_destroy: the status and the boxes dropped (0: the null handle)
shsqlite_destroy(p_vtab) ==
  [rc |-> SQLITE_OK, dropped |-> IF p_vtab # 0 THEN << p_vtab >> ELSE <<>>]

\* shsqlite_disconnect
shsqlite_disconnect(p_vtab) == shsqlite_destroy(p_vtab)

\* shsqlite_close: the status and the boxes dropped (0: the null handle)
shsqlite_close(p_cursor) ==
  [rc |-> SQLITE_OK, dropped |-> IF p_cursor # 0 THEN << p_cursor >> ELSE <<>>]

\* register_module(db, pz_err_msg, p_api) as a function of what the engine
\* does: createRc is the status of the engine's create_module, mallocOk
\* says whether its malloc returns a buffer.  `calls` are the calls made on
\* the engine's API in order, setErr and buf say whether *pz_err_msg is
\* written and what the buffer holds.
register_module(createRc, mallocOk) ==
  IF createRc = SQLITE_OK
  THEN [create_module |-> createRc, rc |-> SQLITE_OK_LOAD_PERMANENTLY,
        calls |-> << "create_module" >>, setErr |-> FALSE, buf |-> <<>>]
  ELSE LET Message(m) ==
             [create_module |-> createRc, rc |-> SQLITE_ERROR,
              calls |-> << "create_module" >>
                          \o [ k \in 1..Len(m.calls) |-> "malloc" ],
              setErr |-> m.some, buf |-> m.buf]
       IN  Message(error_to_sqlite3_string(
                     mallocOk,
                     << "F","a","i","l","e","d"," ","t","o"," ","c","r","e","a","t","e",
                        " ","m","o","d","u","l","e",","," ","s","t","a","t","u","s",":",
                        " " >> \o to_string(createRc)))

\* sqlite3_shsqlite_init(db, pz_err_msg, p_api): SQLITE3_API is set, then
\* register_module is called and its status matched; autoRc is the status
\* of the engine's auto_extension.
sqlite3_shsqlite_init(createRc, autoRc, mallocOk) ==
  LET Matched(result) ==
        IF result.rc = SQLITE_OK
        THEN [result EXCEPT
                !.calls = result.calls \o << "auto_extension" >>,
                !.rc = IF autoRc # SQLITE_OK THEN autoRc
                       ELSE SQLITE_OK_LOAD_PERMANENTLY]
        ELSE result
  IN  Matched(register_module(createRc, mallocOk))

(***************************************************************************)
(* State                                                                   *)
(***************************************************************************)

VARIABLES
  remote,     \* the entries held by the remote source, latest first
  requests,   \* the requests the extension has sent to the remote source
  calls,      \* number of create/connect calls made so far
  tables,     \* the VirtualTable boxes, by handle (resp: the fetch response
              \* the table's snapshot was decoded from)
  cursors,    \* the VirtualCursor boxes, by handle
  pp_vtab,    \* *pp_vtab of the latest create/connect (0: null)
  pz_err,     \* *pz_err of the latest create/connect
  pp_cursor,  \* *pp_cursor of the latest open (0: null)
  last,       \* the latest call of the engine and what it returned
  scan,       \* per cursor: the row scan the engine is driving on it
  p_argv,     \* argument parser under test: the argument list
  p_now,      \* argument parser under test: the two clock readings
  p_res,      \* argument parser under test: the result
  d_in,       \* content decoder under test: the content
  d_out,      \* content decoder under test: the result
  ext         \* the loads of the extension by the engine: what each call
              \* of sqlite3_shsqlite_init did and returned

vars ==
  << remote, requests, calls, tables, cursors, pp_vtab, pz_err, pp_cursor,
     last, scan, p_argv, p_now, p_res, d_in, d_out, ext >>

lifecycleVars ==
  << remote, requests, calls, tables, cursors, pp_vtab, pz_err, pp_cursor,
     last, scan >>

decoderVars == << d_in, d_out >>

parserVars == << p_argv, p_now, p_res, decoderVars, ext >>

NoTable == [state |-> "none", rc |-> 0, call |-> 0, hd |-> NoClient, resp |-> <<>>]
NoReader == [data |-> <<>>, current_index |-> 0]
NoCursor == [state |-> "none", vtab |-> 0, reader |-> NoReader]
NoScan ==
  [mode |-> "off", nexts |-> 0, visited |-> <<>>, rows |-> <<>>]
FreshScan == [NoScan EXCEPT !.mode = "ready"]
NoErr == [written |-> FALSE, buf |-> <<>>]
NoLast ==
  [op |-> "none", rc |-> 0, id |-> 0, cause |-> "none", err |-> "none",
   mallocOk |-> FALSE, mallocs |-> <<>>, declared |-> FALSE,
   cell |-> NoCell, rowid |-> 0, ordinal |-> 0, value |-> <<>>,
   dropped |-> <<>>, auth |-> "none", fetch |-> "none", ub |-> "none",
   info |-> <<>>, infoOut |-> <<>>]
NoParse ==
  [done |-> FALSE, r |-> ArgsErr("none")]
NoContent == [kind |-> "none", text |-> <<>>, content |-> <<>>]
NoDecode == [done |-> FALSE, content |-> <<>>]

(***************************************************************************)
(* Inputs                                                                  *)
(***************************************************************************)

\* Readings of Utc::now().timestamp_millis()
Clock == { DayMillis + 850 }

\* What the collaborators of one create/connect call can do: the remote's
\* answer to the auth request ("ok", "rejected", "transport") and to the
\* fetch ("ok", "malformed", "transport"), whether the engine's malloc
\* returns a buffer, and the status of the engine's declare_vtab.  An input
\* that the call cannot reach (the fetch after a failed auth, ...) is fixed.
CreateInputs ==
  { [auth |-> a, fetch |-> "ok", mallocOk |-> m, declareRc |-> SQLITE_OK] :
      a \in {"rejected", "transport"}, m \in BOOLEAN }
  \cup
  { [auth |-> "ok", fetch |-> f, mallocOk |-> m, declareRc |-> SQLITE_OK] :
      f \in {"malformed", "transport"}, m \in BOOLEAN }
  \cup
  { [auth |-> "ok", fetch |-> "ok", mallocOk |-> TRUE, declareRc |-> rc] :
      rc \in {SQLITE_OK, SQLITE_ERROR} }

(***************************************************************************)
(* Actions                                                                 *)
(***************************************************************************)

LifecycleInit ==
  /\ requests = <<>>
  /\ calls = 0
  /\ tables = [ t \in 1..MaxTables |-> NoTable ]
  /\ cursors = [ c \in 1..MaxCursors |-> NoCursor ]
  /\ pp_vtab = 0
  /\ pz_err = NoErr
  /\ pp_cursor = 0
  /\ last = NoLast
  /\ scan = [ c \in 1..MaxCursors |-> NoScan ]

Init ==
  /\ remote \in RemoteStores
  /\ LifecycleInit
  /\ p_argv = <<>>
  /\ p_now = << 0, 0 >>
  /\ p_res = NoParse
  /\ d_in = NoContent
  /\ d_out = NoDecode
  /\ ext = << sqlite3_shsqlite_init(SQLITE_OK, SQLITE_OK, TRUE) >>

\* The handle the next boxed VirtualTable gets (0: the model has none left).
FreeTable ==
  IF \E t \in 1..MaxTables : tables[t].state = "none"
  THEN CHOOSE t \in 1..MaxTables :
         /\ tables[t].state = "none"
         /\ \A b \in 1..(t - 1) : tables[b].state # "none"
  ELSE 0

\* What the collaborators of one create/connect call do: the two clock
\* readings, the remote's answers and store, the engine's malloc and
\* declare_vtab.
Env(now1, now2, in) ==
  [now1 |-> now1, now2 |-> now2, auth |-> in.auth, fetch |-> in.fetch,
   store |-> remote, mallocOk |-> in.mallocOk, declareRc |-> in.declareRc]

\* The engine calls xCreate (shsqlite_create) or xConnect (shsqlite_connect).
CreateOrConnect(op) ==
  /\ calls < MaxCreates
  /\ FreeTable # 0
  /\ \E argv \in CreateArgvs, in \in CreateInputs, now1 \in Clock :
       \E e \in { IF op = "create"
                  THEN shsqlite_create(argv, Env(now1, now1 + 1, in))
                  ELSE shsqlite_connect(argv, Env(now1, now1 + 1, in)) } :
           /\ calls' = calls + 1
           /\ tables' = IF e.alloc
                        THEN [tables EXCEPT ![FreeTable] =
                                [state |-> "live", rc |-> e.rc, call |-> calls + 1,
                                 hd |-> e.hd, resp |-> e.resp]]
                        ELSE tables
           /\ pp_vtab' = IF e.alloc THEN FreeTable ELSE 0
           /\ pz_err' = [written |-> e.setErr, buf |-> e.buf]
           /\ requests' = requests \o
                [ k \in 1..Len(e.reqs) |-> [kind |-> e.reqs[k], call |-> calls + 1] ]
           /\ last' = [NoLast EXCEPT !.op = op, !.rc = e.rc, !.id = calls + 1,
                         !.cause = e.cause, !.err = e.err, !.mallocOk = in.mallocOk,
                         !.mallocs = e.mallocs, !.declared = e.declared,
                         !.auth = IF Len(e.reqs) >= 1 THEN in.auth ELSE "none",
                         !.fetch = IF Len(e.reqs) >= 2 THEN in.fetch ELSE "none"]
  /\ UNCHANGED << remote, cursors, pp_cursor, scan, parserVars >>

Create == CreateOrConnect("create")

Connect == CreateOrConnect("connect")

\* A table the engine holds: created with SQLITE_OK and not yet destroyed.
Held(t) == tables[t].state = "live" /\ tables[t].rc = SQLITE_OK

OpenCursors(t) ==
  { c \in DOMAIN cursors : cursors[c].state = "open" /\ cursors[c].vtab = t }

\* A callback that turns its handle into a reference without a null check
\* (`&mut *(p as *mut _)`) is given the null handle: undefined behaviour.
\* The process is killed at the access and every box it held is gone with
\* it, or the call returns with some status and nothing changed.
NullDeref(op) ==
  \E o \in {"killed", "returned"}, rc \in {SQLITE_OK, SQLITE_ERROR} :
    /\ o = "killed" => rc = SQLITE_ERROR
    /\ last' = [NoLast EXCEPT !.op = op, !.rc = rc, !.id = 0, !.ub = o]
    /\ IF o = "killed"
       THEN /\ tables' = [ t \in DOMAIN tables |-> NoTable ]
            /\ cursors' = [ c \in DOMAIN cursors |-> NoCursor ]
            /\ scan' = [ c \in DOMAIN cursors |-> NoScan ]
            /\ pp_vtab' = 0
            /\ pp_cursor' = 0
            /\ pz_err' = NoErr
       ELSE UNCHANGED << tables, cursors, scan, pp_vtab, pp_cursor, pz_err >>
    /\ UNCHANGED << remote, requests, calls, parserVars >>

\* The sqlite3_index_info the engine passes to xBestIndex, its outputs at
\* the values the engine initialises them to: no constraint, or one
\* constraint (usable or not) on a column; no constraint used (argvIndex 0),
\* idxNum 0, idxStr null, the engine's default cost and row estimates.
IndexInfos ==
  { [nConstraint |-> IF c = "none" THEN 0 ELSE 1, usable |-> c = "usable",
     argvIndex |-> 0, omit |-> FALSE, idxNum |-> 0, idxStr |-> "null",
     cost |-> "default", rows |-> "default"] :
      c \in {"none", "usable", "unusable"} }

\* shsqlite_best_index
BestIndex ==
  \E t \in 1..MaxTables, info \in IndexInfos :
    /\ Held(t)
    /\ \E r \in { shsqlite_best_index(t, info) } :
         last' = [NoLast EXCEPT !.op = "best_index", !.rc = r.rc, !.id = t,
                    !.info = info, !.infoOut = r.info]
    /\ UNCHANGED << remote, requests, calls, tables, cursors, pp_vtab, pz_err,
                    pp_cursor, scan, parserVars >>

\* The handles in a sequence of dropped boxes.
Dropped(r) == { r.dropped[k] : k \in 1..Len(r.dropped) }

\* shsqlite_destroy / shsqlite_disconnect on the null handle (0) or on the
\* handle of a held table without open cursors: the boxes the call drops
\* are gone.
DestroyOrDisconnect(op) ==
  \E t \in 0..MaxTables :
    /\ t # 0 => (Held(t) /\ OpenCursors(t) = {})
    /\ \E r \in { IF op = "destroy" THEN shsqlite_destroy(t)
                   ELSE shsqlite_disconnect(t) } :
         /\ tables' = [ u \in 1..MaxTables |->
                          IF u \in Dropped(r) THEN NoTable ELSE tables[u] ]
         /\ last' = [NoLast EXCEPT !.op = op, !.rc = r.rc, !.id = t,
                       !.dropped = r.dropped]
    /\ UNCHANGED << remote, requests, calls, cursors, pp_vtab, pz_err, pp_cursor,
                    scan, parserVars >>

Destroy == DestroyOrDisconnect("destroy")

\* shsqlite_disconnect delegates to shsqlite_destroy.
Disconnect == DestroyOrDisconnect("disconnect")

\* shsqlite_open on the null handle or on a held table
Open ==
  \/ NullDeref("open")
  \/ \E t \in 1..MaxTables :
       /\ Held(t)
       /\ \E c \in DOMAIN cursors :
            /\ cursors[c].state = "none"
            /\ \A b \in 1..(c - 1) : cursors[b].state # "none"
            /\ \E g \in { get_reader(tables[t].hd) } :
                 /\ cursors' = [cursors EXCEPT ![c] =
                                  [state |-> "open", vtab |-> t, reader |-> g.reader]]
                 /\ tables' = [tables EXCEPT ![t].hd = g.hd]
            /\ pp_cursor' = c
            /\ scan' = [scan EXCEPT ![c] = FreshScan]
            /\ last' = [NoLast EXCEPT !.op = "open", !.rc = SQLITE_OK, !.id = c]
       /\ UNCHANGED << remote, requests, calls, pp_vtab, pz_err, parserVars >>

\* shsqlite_close on the null handle (0) or on an open cursor: the boxes
\* the call drops are gone.
Close ==
  \E c \in ({0} \cup DOMAIN cursors) :
    /\ c # 0 => cursors[c].state = "open"
    /\ \E r \in { shsqlite_close(c) } :
         /\ cursors' = [ b \in DOMAIN cursors |->
                           IF b \in Dropped(r) THEN NoCursor ELSE cursors[b] ]
         /\ scan' = [ b \in DOMAIN cursors |->
                        IF b \in Dropped(r) THEN NoScan ELSE scan[b] ]
         /\ last' = [NoLast EXCEPT !.op = "close", !.rc = r.rc, !.id = c,
                       !.dropped = r.dropped]
    /\ UNCHANGED << remote, requests, calls, tables, pp_vtab, pz_err, pp_cursor,
                    parserVars >>

\* shsqlite_filter
Filter ==
  \/ /\ last' = [NoLast EXCEPT !.op = "filter", !.rc = SQLITE_OK, !.id = 0]
     /\ UNCHANGED << remote, requests, calls, tables, cursors, pp_vtab, pz_err,
                     pp_cursor, scan, parserVars >>
  \/ \E c \in DOMAIN cursors, idxNum \in 0..1 :
       /\ cursors[c].state = "open"
       /\ cursors' = [cursors EXCEPT
                        ![c].reader = shsqlite_filter(cursors[c].reader, idxNum, <<>>, 0)]
       /\ scan' = [scan EXCEPT ![c] =
                     IF scan[c].mode = "ready" /\ scan[c].nexts = 0
                     THEN scan[c] ELSE NoScan]
       /\ last' = [NoLast EXCEPT !.op = "filter", !.rc = SQLITE_OK, !.id = c]
       /\ UNCHANGED << remote, requests, calls, tables, pp_vtab, pz_err, pp_cursor,
                       parserVars >>

\* shsqlite_next moving every open cursor of the table, as it would with one
\* reader shared by the cursors.
Next_shared_reader ==
  \E c \in DOMAIN cursors :
    /\ cursors[c].state = "open"
    /\ cursors[c].reader.current_index < MaxIndex
    /\ cursors' = [ b \in DOMAIN cursors |->
                      IF cursors[b].state = "open" /\ cursors[b].vtab = cursors[c].vtab
                      THEN [cursors[b] EXCEPT !.reader = shsqlite_next(cursors[b].reader)]
                      ELSE cursors[b] ]
    /\ scan' = [ b \in DOMAIN cursors |-> NoScan ]
    /\ last' = [NoLast EXCEPT !.op = "next", !.rc = SQLITE_OK, !.id = c]
    /\ UNCHANGED << remote, requests, calls, tables, pp_vtab, pz_err, pp_cursor,
                    parserVars >>

\* shsqlite_next
Next_ ==
  \/ NullDeref("next")
  \/ \E c \in DOMAIN cursors :
       /\ cursors[c].state = "open"
       /\ cursors[c].reader.current_index < MaxIndex
       /\ cursors' = [cursors EXCEPT ![c].reader = shsqlite_next(cursors[c].reader)]
       /\ scan' = [scan EXCEPT ![c] =
                     IF scan[c].mode \in {"row", "read"}
                     THEN [scan[c] EXCEPT
                             !.mode = "ready", !.nexts = scan[c].nexts + 1,
                             !.visited = Append(scan[c].visited,
                                                cursors[c].reader.current_index)]
                     ELSE NoScan]
       /\ last' = [NoLast EXCEPT !.op = "next", !.rc = SQLITE_OK, !.id = c]
       /\ UNCHANGED << remote, requests, calls, tables, pp_vtab, pz_err, pp_cursor,
                       parserVars >>

\* shsqlite_eof
Eof ==
  \/ NullDeref("eof")
  \/ \E c \in DOMAIN cursors :
       /\ cursors[c].state = "open"
       /\ \E rc \in { shsqlite_eof(cursors[c].reader) } :
            /\ scan' = [scan EXCEPT ![c] =
                          IF scan[c].mode = "ready"
                          THEN [scan[c] EXCEPT
                                  !.mode = IF rc = 0 THEN "row" ELSE "done"]
                          ELSE scan[c]]
            /\ last' = [NoLast EXCEPT !.op = "eof", !.rc = rc, !.id = c]
       /\ UNCHANGED << remote, requests, calls, tables, cursors, pp_vtab, pz_err,
                       pp_cursor, parserVars >>

\* shsqlite_column
Column ==
  \/ NullDeref("column")
  \/ \E c \in DOMAIN cursors, ordinal \in 0..MaxOrdinal :
       /\ cursors[c].state = "open"
       /\ last' = [NoLast EXCEPT !.op = "column", !.rc = SQLITE_OK, !.id = c,
                     !.cell = shsqlite_column(cursors[c].reader, ordinal),
                     !.value = get_value(cursors[c].reader, ordinal),
                     !.ordinal = ordinal]
       /\ UNCHANGED << remote, requests, calls, tables, cursors, pp_vtab, pz_err,
                       pp_cursor, scan, parserVars >>

\* shsqlite_rowid
Rowid ==
  \/ NullDeref("rowid")
  \/ \E c \in DOMAIN cursors :
       /\ cursors[c].state = "open"
       /\ last' = [NoLast EXCEPT !.op = "rowid", !.rc = SQLITE_OK, !.id = c,
                     !.rowid = shsqlite_rowid(cursors[c].reader)]
       /\ UNCHANGED << remote, requests, calls, tables, cursors, pp_vtab, pz_err,
                       pp_cursor, scan, parserVars >>

\* The engine reads the row of a SELECT * at the cursor's position, after
\* xEof returned 0: xColumn for each of the three declared columns, then
\* xRowid.
ReadRow ==
  \E c \in DOMAIN cursors :
    /\ cursors[c].state = "open"
    /\ scan[c].mode = "row"
    /\ scan' = [scan EXCEPT ![c] =
                  [scan[c] EXCEPT
                     !.mode = "read",
                     !.rows = Append(scan[c].rows,
                                [cells |-> [ k \in 1..3 |->
                                             shsqlite_column(cursors[c].reader, k - 1) ],
                                 rowid |-> shsqlite_rowid(cursors[c].reader)])]]
    /\ last' = [NoLast EXCEPT !.op = "row", !.rc = SQLITE_OK, !.id = c]
    /\ UNCHANGED << remote, requests, calls, tables, cursors, pp_vtab, pz_err,
                    pp_cursor, parserVars >>

\* An entry is deleted at the remote source (delete_data_entry of another
\* client, as the tests do after their scan).
DeleteRemote ==
  \E k \in 1..Len(remote) :
    /\ \E t \in 1..MaxTables : Held(t)
    /\ remote' = SubSeq(remote, 1, k - 1) \o SubSeq(remote, k + 1, Len(remote))
    /\ last' = [NoLast EXCEPT !.op = "remote_delete"]
    /\ UNCHANGED << requests, calls, tables, cursors, pp_vtab, pz_err, pp_cursor,
                    scan, parserVars >>

Next ==
  \/ Create
  \/ Connect
  \/ BestIndex
  \/ Destroy
  \/ Disconnect
  \/ Open
  \/ Close
  \/ Filter
  \/ Next_
  \/ Eof
  \/ Column
  \/ Rowid
  \/ ReadRow
  \/ DeleteRemote

Spec == Init /\ [][Next]_vars

(***************************************************************************)
(* Several cursors on one table                                            *)
(***************************************************************************)

MaxShared == 2

\* The state after a create that returned SQLITE_OK, with MaxShared cursor
\* handles not yet opened.
SharedInit ==
  /\ remote \in RemoteStores
  /\ \E argv \in CreateArgvs, now1 \in Clock :
       \E e \in { shsqlite_create(argv,
                    Env(now1, now1 + 1,
                        [auth |-> "ok", fetch |-> "ok", mallocOk |-> TRUE,
                         declareRc |-> SQLITE_OK])) } :
         /\ e.rc = SQLITE_OK
         /\ tables = [ t \in 1..MaxTables |->
                         [state |-> "live", rc |-> e.rc, call |-> 1,
                          hd |-> e.hd, resp |-> e.resp] ]
         /\ requests = [ k \in 1..Len(e.reqs) |-> [kind |-> e.reqs[k], call |-> 1] ]
         /\ pz_err = [written |-> e.setErr, buf |-> e.buf]
         /\ last = [NoLast EXCEPT !.op = "create", !.rc = e.rc, !.id = 1,
                      !.cause = e.cause, !.err = e.err, !.mallocOk = TRUE,
                      !.mallocs = e.mallocs, !.declared = e.declared,
                      !.auth = "ok", !.fetch = "ok"]
  /\ calls = 1
  /\ pp_vtab = 1
  /\ pp_cursor = 0
  /\ cursors = [ c \in 1..MaxShared |-> NoCursor ]
  /\ scan = [ c \in 1..MaxShared |-> NoScan ]
  /\ p_argv = <<>>
  /\ p_now = << 0, 0 >>
  /\ p_res = NoParse
  /\ d_in = NoContent
  /\ d_out = NoDecode
  /\ ext = << sqlite3_shsqlite_init(SQLITE_OK, SQLITE_OK, TRUE) >>

\* The calls of the engine on the cursors of the table.
SharedNext ==
  \/ Open
  \/ Close
  \/ Filter
  \/ Next_
  \/ Eof
  \/ Column
  \/ Rowid

SpecShared == SharedInit /\ [][SharedNext]_vars

(***************************************************************************)
(* The argument parser on its own: collect_options_from_args applied to    *)
(* every argument list of at most MaxArgs arguments of ArgPool.            *)
(***************************************************************************)

MaxArgs == 3

RECURSIVE ArgLists(_)
ArgLists(n) ==
  IF n = 0 THEN { <<>> }
  ELSE ArgLists(n - 1)
         \cup { Append(l, ArgPool[k]) : l \in { x \in ArgLists(n - 1) : Len(x) = n - 1 },
                                       k \in 1..Len(ArgPool) }

ParseInit ==
  /\ remote = <<>>
  /\ LifecycleInit
  /\ p_argv \in ArgLists(MaxArgs)
  /\ p_now \in { << n, n + d >> : n \in Clock, d \in 0..1 }
  /\ p_res = NoParse
  /\ d_in = NoContent
  /\ d_out = NoDecode
  /\ ext = << sqlite3_shsqlite_init(SQLITE_OK, SQLITE_OK, TRUE) >>

\* collect_options_from_args is called on the argument list.
Parse ==
  /\ ~p_res.done
  /\ p_res' = [done |-> TRUE,
               r |-> collect_options_from_args(p_argv, p_now[1], p_now[2])]
  /\ UNCHANGED << lifecycleVars, p_argv, p_now, decoderVars, ext >>

SpecParse == ParseInit /\ [][Parse]_vars

(***************************************************************************)
(* The content decoder on its own                                          *)
(***************************************************************************)

MaxText == 3

\* The characters the texts are made of.
TextChars == << "h", "i", " ", "~", "\"", "\\", "}", "0" >>

RECURSIVE Texts(_)
Texts(n) ==
  IF n = 0 THEN { <<>> }
  ELSE Texts(n - 1)
         \cup { Append(s, TextChars[k]) : s \in { x \in Texts(n - 1) : Len(x) = n - 1 },
                                        k \in 1..Len(TextChars) }

Str_hello == << "h", "e", "l", "l", "o" >>

B64Alphabet ==
  << "A","B","C","D","E","F","G","H","I","J","K","L","M","N","O","P","Q","R",
     "S","T","U","V","W","X","Y","Z","a","b","c","d","e","f","g","h","i","j",
     "k","l","m","n","o","p","q","r","s","t","u","v","w","x","y","z","0","1",
     "2","3","4","5","6","7","8","9","+","/" >>

\* The standard base64 encoding of a byte sequence, with padding.
RECURSIVE Base64Encode(_)
Base64Encode(b) ==
  LET Sym(v) == B64Alphabet[v + 1]
  IN  IF Len(b) = 0 THEN <<>>
      ELSE IF Len(b) = 1
           THEN << Sym(b[1] \div 4), Sym((b[1] % 4) * 16), "=", "=" >>
      ELSE IF Len(b) = 2
           THEN << Sym(b[1] \div 4), Sym((b[1] % 4) * 16 + b[2] \div 16),
                   Sym((b[2] % 16) * 4), "=" >>
      ELSE << Sym(b[1] \div 4), Sym((b[1] % 4) * 16 + b[2] \div 16),
              Sym((b[2] % 16) * 4 + b[3] \div 64), Sym(b[3] % 64) >>
             \o Base64Encode(SubSeq(b, 4, Len(b)))

\* The JSON object {"payload":"<b64>"}
PayloadObject(b64) ==
  << "{", "\"", "p", "a", "y", "l", "o", "a", "d", "\"", ":", "\"" >>
    \o b64 \o << "\"", "}" >>

\* Contents as the API returns them.
ContentPool ==
  {
    \* valid base64 (test_try_decode)
    << "{", "\"", "p", "a", "y", "l", "o", "a", "d", "\"", ":", "\"",
       "a", "G", "V", "s", "b", "G", "8", "=", "\"", "}" >>,
    \* invalid base64 (test_try_decode)
    << "{", "\"", "p", "a", "y", "l", "o", "a", "d", "\"", ":", "\"",
       "a", "G", "V", "s", "b", "G", "\"", "}" >>,
    \* not ASCII printable: LF ESC LF (test_try_decode)
    << "{", "\"", "p", "a", "y", "l", "o", "a", "d", "\"", ":", "\"",
       "C", "h", "s", "K", "\"", "}" >>,
    \* plain JSON (test_try_decode)
    << "{", "\"", "t", "e", "m", "p", "e", "r", "a", "t", "u", "r",
       "e", "\"", ":", "2", "0", "}" >>,
    \* the byte 0xFF: not UTF-8
    << "{", "\"", "p", "a", "y", "l", "o", "a", "d", "\"", ":", "\"",
       "/", "w", "=", "=", "\"", "}" >>,
    \* a tab
    << "{", "\"", "p", "a", "y", "l", "o", "a", "d", "\"", ":", "\"",
       "C", "Q", "=", "=", "\"", "}" >>,
    \* U+00E9
    << "{", "\"", "p", "a", "y", "l", "o", "a", "d", "\"", ":", "\"",
       "w", "6", "k", "=", "\"", "}" >>,
    \* U+0141
    << "{", "\"", "p", "a", "y", "l", "o", "a", "d", "\"", ":", "\"",
       "x", "Y", "E", "=", "\"", "}" >>,
    \* base64 without its padding
    << "{", "\"", "p", "a", "y", "l", "o", "a", "d", "\"", ":", "\"",
       "a", "G", "k", "\"", "}" >>,
    \* base64 with non-zero unused bits
    << "{", "\"", "p", "a", "y", "l", "o", "a", "d", "\"", ":", "\"",
       "a", "G", "l", "=", "\"", "}" >>,
    \* payload is not a string
    << "{", "\"", "p", "a", "y", "l", "o", "a", "d", "\"", ":", "2",
       "0", "}" >>,
    \* payload twice
    << "{", "\"", "p", "a", "y", "l", "o", "a", "d", "\"", ":", "\"",
       "a", "G", "k", "=", "\"", ",", "\"", "p", "a", "y", "l", "o",
       "a", "d", "\"", ":", "\"", "a", "G", "k", "=", "\"", "}" >>,
    \* another field before payload
    << "{", "\"", "x", "\"", ":", "1", ",", "\"", "p", "a", "y", "l",
       "o", "a", "d", "\"", ":", "\"", "a", "G", "k", "=", "\"", "}" >>,
    \* whitespace around the tokens
    << " ", "{", "\"", "p", "a", "y", "l", "o", "a", "d", "\"", " ",
       ":", " ", "\"", "a", "G", "k", "=", "\"", " ", "}", " " >>,
    \* a key that differs in case
    << "{", "\"", "P", "a", "y", "l", "o", "a", "d", "\"", ":", "\"",
       "a", "G", "k", "=", "\"", "}" >>,
    \* a JSON array of one string
    << "[", "\"", "a", "G", "k", "=", "\"", "]" >>,
    \* a JSON array of two strings
    << "[", "\"", "a", "G", "k", "=", "\"", ",", "\"", "a", "G", "k",
       "=", "\"", "]" >>,
    \* a JSON string
    << "\"", "a", "G", "k", "=", "\"" >>,
    \* not JSON
    << "a", "G", "k", "=" >>,
    \* an empty object
    << "{", "}" >>,
    \* empty content
    <<>>
  }

\* The contents given to the decoder: the object carrying the base64 of a
\* text of printable ASCII characters, or a content of the pool.
DecodeInputs ==
  { [kind |-> "encoded", text |-> s,
     content |-> PayloadObject(Base64Encode([ i \in 1..Len(s) |-> Ord(s[i]) ]))] :
      s \in Texts(MaxText) \cup { Str_hello } }
  \cup
  { [kind |-> "raw", text |-> <<>>, content |-> c] : c \in ContentPool }

DecodeInit ==
  /\ remote = <<>>
  /\ LifecycleInit
  /\ p_argv = <<>>
  /\ p_now = << 0, 0 >>
  /\ p_res = NoParse
  /\ d_in \in DecodeInputs
  /\ d_out = NoDecode
  /\ ext = << sqlite3_shsqlite_init(SQLITE_OK, SQLITE_OK, TRUE) >>

\* try_decode is called on the content.
Decode ==
  /\ ~d_out.done
  /\ d_out' = [done |-> TRUE, content |-> try_decode(d_in.content)]
  /\ UNCHANGED << lifecycleVars, p_argv, p_now, p_res, d_in, ext >>

SpecDecode == DecodeInit /\ [][Decode]_vars

(***************************************************************************)
(* Loading the extension: the engine calls the entry point                 *)
(* sqlite3_shsqlite_init, once for each load of the library.               *)
(***************************************************************************)

MaxLoads == 3

\* Before the first load: no callback can have been called.
LoadInit ==
  /\ remote = <<>>
  /\ LifecycleInit
  /\ p_argv = <<>>
  /\ p_now = << 0, 0 >>
  /\ p_res = NoParse
  /\ d_in = NoContent
  /\ d_out = NoDecode
  /\ ext = <<>>

\* The engine loads the library and calls sqlite3_shsqlite_init.  Its
\* create_module returns SQLITE_OK, SQLITE_ERROR, SQLITE_NOMEM (7) or
\* SQLITE_MISUSE (21); its auto_extension SQLITE_OK or SQLITE_NOMEM.
Load ==
  /\ Len(ext) < MaxLoads
  /\ \E createRc \in {SQLITE_OK, SQLITE_ERROR, 7, 21},
        autoRc \in {SQLITE_OK, 7}, mallocOk \in BOOLEAN :
       ext' = Append(ext, sqlite3_shsqlite_init(createRc, autoRc, mallocOk))
  /\ UNCHANGED << lifecycleVars, p_argv, p_now, p_res, decoderVars >>

SpecLoad == LoadInit /\ [][Load]_vars


(***************************************************************************)
(* Properties                                                              *)
(***************************************************************************)

IsCreate(op) == op \in {"create", "connect"}

OpenCursor(c) == cursors[c].state = "open"

\* The cursors whose calls so far are those of a scan from a fresh cursor:
\* xEof, then while it returns 0 the row may be read and xNext is called.
Scanning(c) == OpenCursor(c) /\ scan[c].mode # "off"

\* C1: filter on a cursor at any position puts the cursor back to position
\* 0, so that the rows returned afterwards start again from the first entry.
C1_FilterResetsPosition ==
  (last.op = "filter" /\ last.id # 0) =>
    cursors[last.id].reader.current_index = 0

\* C2: a cursor freshly produced by open is at position 0; over a snapshot
\* of N entries the loop (eof, next) visits the positions 0, 1, ..., N-1 in
\* order, eof returns false at every position below N and true at N, and the
\* scan ends after exactly N calls of next.
C2_ScanVisitsEveryPosition ==
  \A c \in 1..MaxCursors :
    Scanning(c) =>
      /\ cursors[c].reader.current_index = scan[c].nexts
      /\ scan[c].visited = [ i \in 1..scan[c].nexts |-> i - 1 ]
      /\ scan[c].nexts <= Len(cursors[c].reader.data)
      /\ scan[c].mode \in {"row", "read"} => scan[c].nexts < Len(cursors[c].reader.data)
      /\ scan[c].mode = "done" => scan[c].nexts = Len(cursors[c].reader.data)

\* C2 happens: a scan over a snapshot of two entries has ended.
C2_Witness ==
  \E c \in 1..MaxCursors :
    /\ Scanning(c)
    /\ scan[c].mode = "done"
    /\ scan[c].nexts = 2
    /\ Len(cursors[c].reader.data) = 2

TextCell(s) == [type |-> "text", int |-> 0, text |-> s]
IntCell(n) == [type |-> "int", int |-> n, text |-> <<>>]

\* The scans in which every row visited so far was read.
ReadingAll(c) ==
  /\ Scanning(c)
  /\ Len(scan[c].rows) = scan[c].nexts + (IF scan[c].mode = "read" THEN 1 ELSE 0)

\* The rows of the scan of c are, in order, Row(entry, rowid) of the entries
\* of the response the table was built from, and a scan that has ended has
\* one row for each entry.
ScanRowsAre(c, Row(_, _)) ==
  LET resp == tables[cursors[c].vtab].resp
  IN  /\ Len(scan[c].rows) <= Len(resp)
      /\ \A k \in 1..Len(scan[c].rows) : scan[c].rows[k] = Row(resp[k], k - 1)
      /\ scan[c].mode = "done" => Len(scan[c].rows) = Len(resp)

\* C3 as stated: a full scan emits exactly one row per entry of the remote's
\* response, in the response's order, with time and content_type equal to
\* the entry's and value equal to the decoding of the entry's content, and
\* with the rowids 0, 1, ..., N-1.
C3_RowsEqualEntries ==
  \A c \in 1..MaxCursors :
    ReadingAll(c) =>
      LET Row(e, id) ==
            [cells |-> << IntCell(e.time), TextCell(e.content_type),
                          TextCell(try_decode(e.content)) >>,
             rowid |-> id]
      IN  ScanRowsAre(c, Row)

\* The cell of a string under the type inference of the module: the 64-bit
\* integer it parses as, or the string itself.
InferredCell(s) == IF ParseI64(s).ok THEN IntCell(ParseI64(s).val) ELSE TextCell(s)

\* C3, amended: a full scan emits exactly one row per entry of the remote's
\* response, in the response's order and with the rowids 0, 1, ..., N-1; the
\* time cell is the entry's time, and the content_type and value cells carry
\* the entry's content type and the decoding of its content as text, or as
\* the integer they parse as when they parse as a 64-bit integer.
C3_RowsFollowEntries ==
  \A c \in 1..MaxCursors :
    ReadingAll(c) =>
      LET Row(e, id) ==
            [cells |-> << IntCell(e.time), InferredCell(e.content_type),
                          InferredCell(try_decode(e.content)) >>,
             rowid |-> id]
      IN  ScanRowsAre(c, Row)

\* C3 happens: a scan of two entries has ended with both rows read, one of
\* them with a base64 payload.
C3_Witness ==
  \E c \in 1..MaxCursors :
    /\ ReadingAll(c)
    /\ scan[c].mode = "done"
    /\ Len(scan[c].rows) = 2
    /\ \E k \in 1..2 :
         /\ tables[cursors[c].vtab].resp[k].content = Str_payload_hello
         /\ scan[c].rows[k].cells[3].text # Str_payload_hello

RequestsOf(call, kind) ==
  { k \in 1..Len(requests) : requests[k].call = call /\ requests[k].kind = kind }

\* C4: every successful create or connect performs exactly one
\* authentication followed by one fetch against the remote, and no later
\* call (open, filter, next, eof, column, rowid, close, ...) sends a request.
C4_OneFetchPerTable ==
  /\ [](\A t \in 1..MaxTables :
          tables[t].state = "live" =>
            /\ Cardinality(RequestsOf(tables[t].call, "auth")) = 1
            /\ Cardinality(RequestsOf(tables[t].call, "fetch")) = 1)
  /\ [][ /\ (IsCreate(last'.op) /\ calls' = calls + 1 /\ last'.cause = "ok")
            => requests' = requests \o << [kind |-> "auth", call |-> calls'],
                                         [kind |-> "fetch", call |-> calls'] >>
         /\ ~IsCreate(last'.op) => requests' = requests ]_vars

\* C4 happens: a table was created and a scan of it has ended, with the two
\* requests of the create the only ones sent.
C4_Witness ==
  /\ \E c \in 1..MaxCursors : Scanning(c) /\ scan[c].mode = "done" /\ scan[c].nexts = 2
  /\ calls = 1
  /\ Len(requests) = 2

\* C5: the snapshot of a table never changes after the create, whatever the
\* cursors do and whatever is deleted at the remote; every cursor, opened
\* before or after, iterates over that same sequence.
C5_SnapshotIsFixed ==
  /\ [](\A c \in 1..MaxCursors :
          OpenCursor(c) => cursors[c].reader.data = tables[cursors[c].vtab].hd.data)
  /\ [][ \A t \in 1..MaxTables :
           (tables[t].state = "live" /\ tables'[t].state = "live"
              /\ tables'[t].call = tables[t].call)
           => tables'[t].hd.data = tables[t].hd.data ]_vars

\* C5 happens: entries were deleted at the remote after the create, and a
\* cursor has scanned the two entries of the snapshot.
C5_Witness ==
  \E c \in 1..MaxCursors :
    /\ Scanning(c)
    /\ scan[c].mode = "done"
    /\ Len(scan[c].rows) = 2
    /\ Len(tables[cursors[c].vtab].hd.data) = 2
    /\ Len(remote) < 2

\* C6: when create fails because the arguments cannot be parsed or because
\* the remote fails, it returns the error status, allocates no table handle
\* and leaves the table out-parameter unwritten.
C6_FailedCreateHasNoTable ==
  (IsCreate(last.op) /\ last.cause \in {"parse", "auth", "fetch"}) =>
    /\ last.rc = SQLITE_ERROR
    /\ pp_vtab = 0
    /\ \A t \in 1..MaxTables : tables[t].call # last.id

\* C6 happens: a create has failed at the fetch.
C6_Witness ==
  /\ last.op = "create"
  /\ last.cause = "fetch"
  /\ last.rc = SQLITE_ERROR
  /\ pp_vtab = 0

\* C7: every failure of create, a parse failure (a missing IMSI included) as
\* much as a remote failure, sets the error message out-parameter to a
\* message, provided the engine's allocator returns a buffer.
C7_FailedCreateHasMessage ==
  (IsCreate(last.op) /\ last.cause \in {"parse", "auth", "fetch"} /\ last.mallocOk) =>
    /\ pz_err.written
    /\ pz_err.buf # <<>>

\* C8: the error message is copied into a buffer obtained from the engine's
\* allocator with a size of the message's length plus one, the bytes of the
\* message followed by a NUL, and the pointer is handed back in the
\* out-parameter; when the allocator returns null the out-parameter is left
\* as it was.
C8_MessageBuffer ==
  (IsCreate(last.op) /\ last.cause \in {"auth", "fetch"}) =>
    /\ last.mallocs = << Len(ErrorDisplay(last.err)) + 1 >>
    /\ last.mallocOk =>
         /\ pz_err.written
         /\ pz_err.buf = [ i \in 1..Len(ErrorDisplay(last.err)) |->
                             Ord(ErrorDisplay(last.err)[i]) ] \o <<0>>
    /\ ~last.mallocOk => ~pz_err.written /\ pz_err.buf = <<>>

\* C8 happens: a create has failed at the authentication and the message
\* was handed back.
C8_Witness ==
  /\ IsCreate(last.op)
  /\ last.cause = "auth"
  /\ last.mallocOk
  /\ pz_err.written
  /\ Len(pz_err.buf) > 1

\* The arguments of the parsed list that match the grammar KEY 'value' with
\* the key `kind`, case-insensitively.
KeyArgs(key) ==
  { i \in 1..Len(p_argv) :
      /\ RegexCaptures(p_argv[i]).matched
      /\ to_lowercase(RegexCaptures(p_argv[i]).key) = key }

Key_imsi == <<"i","m","s","i">>
Key_coverage == <<"c","o","v","e","r","a","g","e">>
Key_from == <<"f","r","o","m">>
Key_to == <<"t","o">>
Key_limit == <<"l","i","m","i","t">>

ValueOf(i) == RegexCaptures(p_argv[i]).value

\* C9: an argument list without a well-formed IMSI argument is rejected with
\* NoImsi, whatever other keys it has.
C9_NoImsi ==
  (p_res.done /\ KeyArgs(Key_imsi) = {}) =>
    /\ ~p_res.r.ok
    /\ p_res.r.err = "NoImsi"

\* C9 happens: a list with well-formed FROM and LIMIT arguments and no IMSI
\* was parsed.
C9_Witness ==
  /\ p_res.done
  /\ KeyArgs(Key_imsi) = {}
  /\ KeyArgs(Key_from) # {}
  /\ KeyArgs(Key_limit) # {}
  /\ p_res.r.err = "NoImsi"

\* A LIMIT value of the documented range 1..1000.
ValidLimit(v) ==
  ParseU32(v).ok /\ ParseU32(v).val >= 1 /\ ParseU32(v).val <= 1000

\* A COVERAGE value naming a coverage: g, global, jp or japan in any case.
ValidCoverage(v) ==
  to_lowercase(v) \in { <<"g">>, <<"g","l","o","b","a","l">>,
                         <<"j","p">>, <<"j","a","p","a","n">> }

\* C10: with an IMSI given, parsing succeeds, every optional key that is
\* absent takes its default (Global, now - 24 h, now, 100) and every key that
\* is present with valid values only takes exactly one of those values;
\* IMSI 'X' alone yields device X with the four defaults.
C10_ArgumentDefaulting ==
  (p_res.done /\ KeyArgs(Key_imsi) # {}) =>
    /\ p_res.r.ok
    /\ p_res.r.imsi \in { ValueOf(i) : i \in KeyArgs(Key_imsi) }
    /\ KeyArgs(Key_coverage) = {} => p_res.r.endpoint = "Global"
    /\ KeyArgs(Key_from) = {} => p_res.r.from = p_now[1] - DayMillis
    /\ KeyArgs(Key_to) = {} => p_res.r.to = p_now[2]
    /\ KeyArgs(Key_limit) = {} => p_res.r.limit = DefaultLimit
    /\ (KeyArgs(Key_from) # {} /\ \A i \in KeyArgs(Key_from) : ParseI64(ValueOf(i)).ok)
         => p_res.r.from \in { ParseI64(ValueOf(i)).val : i \in KeyArgs(Key_from) }
    /\ (KeyArgs(Key_to) # {} /\ \A i \in KeyArgs(Key_to) : ParseI64(ValueOf(i)).ok)
         => p_res.r.to \in { ParseI64(ValueOf(i)).val : i \in KeyArgs(Key_to) }
    /\ (KeyArgs(Key_limit) # {} /\ \A i \in KeyArgs(Key_limit) : ValidLimit(ValueOf(i)))
         => p_res.r.limit \in { ParseU32(ValueOf(i)).val : i \in KeyArgs(Key_limit) }
    /\ (KeyArgs(Key_coverage) # {}
          /\ \A i \in KeyArgs(Key_coverage) : ValidCoverage(ValueOf(i)))
         => p_res.r.endpoint \in
              { IF to_lowercase(ValueOf(i)) \in { <<"j","p">>, <<"j","a","p","a","n">> }
                THEN "Japan" ELSE "Global" : i \in KeyArgs(Key_coverage) }

\* The well-formed arguments of a key whose value parses as an int64.
Int64Args(key) == { i \in KeyArgs(key) : ParseI64(ValueOf(i)).ok }

\* C11: from and to are defaulted only when the caller did not give them: a
\* parsed list whose only FROM (resp. TO) argument is FROM 'v' with v an
\* int64 yields a configuration whose from (resp. to) equals v.
C11_CallerFromToKept ==
  (p_res.done /\ p_res.r.ok) =>
    /\ \A i \in Int64Args(Key_from) :
         KeyArgs(Key_from) = {i} => p_res.r.from = ParseI64(ValueOf(i)).val
    /\ \A i \in Int64Args(Key_to) :
         KeyArgs(Key_to) = {i} => p_res.r.to = ParseI64(ValueOf(i)).val

\* C12: every configuration of a successful parse has its limit in 1..1000,
\* and a list whose LIMIT arguments are all unsigned integers outside
\* 1..1000 (0, 1001) is rejected with InvalidLimit.
C12_LimitInRange ==
  p_res.done =>
    /\ p_res.r.ok => (p_res.r.limit >= 1 /\ p_res.r.limit <= 1000)
    /\ ( /\ KeyArgs(Key_imsi) # {}
         /\ KeyArgs(Key_limit) # {}
         /\ \A i \in KeyArgs(Key_limit) :
              ParseU32(ValueOf(i)).ok /\ ~ValidLimit(ValueOf(i)) )
       => (~p_res.r.ok /\ p_res.r.err = "InvalidLimit")

\* An argument the loop has nothing to take from: it does not match the
\* grammar (which includes every unrecognized key), or it is a FROM or TO
\* whose value is not an int64, or a LIMIT whose value is not a u32.
SkippedArg(arg) ==
  \/ ~RegexCaptures(arg).matched
  \/ /\ to_lowercase(RegexCaptures(arg).key) \in { Key_from, Key_to }
     /\ ~ParseI64(RegexCaptures(arg).value).ok
  \/ /\ to_lowercase(RegexCaptures(arg).key) = Key_limit
     /\ ~ParseU32(RegexCaptures(arg).value).ok

KeptArg(arg) == ~SkippedArg(arg)

\* C13: lenient skip: the result of parsing a list equals the result of
\* parsing the same list with its skipped arguments removed (same clock
\* readings), so such arguments never abort the parse.
C13_LenientSkip ==
  p_res.done =>
    p_res.r = collect_options_from_args(SelectSeq(p_argv, KeptArg),
                                        p_now[1], p_now[2])

\* C13 happens: a successful parse of three arguments of which an argument
\* outside the grammar and a FROM with a non-integer value come before the
\* IMSI.
C13_Witness ==
  /\ p_res.done
  /\ p_res.r.ok
  /\ Len(p_argv) = 3
  /\ ~RegexCaptures(p_argv[1]).matched
  /\ p_argv[2] = Arg_FROM_x
  /\ 3 \in KeyArgs(Key_imsi)

\* Every order of an argument list.
Reorderings(argv) ==
  { [i \in 1..Len(argv) |-> argv[f[i]]] : f \in Permutations(1..Len(argv)) }

\* The outcome of a parse as the caller sees it: the error, or the device,
\* coverage and limit with the from and to that the caller gave.
OutcomeOf(r, argv) ==
  IF ~r.ok THEN <<r.err>>
  ELSE << r.imsi, r.endpoint, r.limit,
          IF \E i \in 1..Len(argv) : ParseOption(argv[i]).ok
                                     /\ ParseOption(argv[i]).kind = "From"
          THEN <<r.from>> ELSE <<>>,
          IF \E i \in 1..Len(argv) : ParseOption(argv[i]).ok
                                     /\ ParseOption(argv[i]).kind = "To"
          THEN <<r.to>> ELSE <<>> >>

\* The keys that more than one taken argument gives.
RepeatedKeys ==
  { key \in { Key_imsi, Key_coverage, Key_from, Key_to, Key_limit } :
      Cardinality({ i \in KeyArgs(key) : KeptArg(p_argv[i]) }) > 1 }

\* C14 as stated: every order of every argument list parses to the same
\* outcome.
C14_AnyOrderSameOutcome ==
  p_res.done =>
    \A argv \in Reorderings(p_argv) :
      OutcomeOf(collect_options_from_args(argv, p_now[1], p_now[2]), argv)
        = OutcomeOf(p_res.r, p_argv)

\* C14, amended: every order of an argument list in which no key is given
\* by two taken arguments parses to the same outcome; of two taken arguments
\* with one key the later one wins.
C14_OrderInsensitive ==
  (p_res.done /\ RepeatedKeys = {}) =>
    \A argv \in Reorderings(p_argv) :
      OutcomeOf(collect_options_from_args(argv, p_now[1], p_now[2]), argv)
        = OutcomeOf(p_res.r, p_argv)

\* C14 happens: a successful parse of three arguments with three different
\* keys, the IMSI not first.
C14_Witness ==
  /\ p_res.done
  /\ p_res.r.ok
  /\ Len(p_argv) = 3
  /\ RepeatedKeys = {}
  /\ KeyArgs(Key_limit) = {1}
  /\ KeyArgs(Key_imsi) = {2}
  /\ KeyArgs(Key_from) = {3}
  /\ p_res.r.from = 5

\* C15: decoder round trip: for a text s of printable ASCII characters, the
\* object {"payload": base64(s)} decodes to exactly {"value":"s"}, with the
\* characters of s put in as they are (a quote or a backslash not escaped).
C15_DecoderRoundTrip ==
  (d_out.done /\ d_in.kind = "encoded") =>
    d_out.content =
      << "{", "\"", "v", "a", "l", "u", "e", "\"", ":", "\"" >>
        \o d_in.text \o << "\"", "}" >>

\* C15 happens: a three-character text with a quote and a backslash in it
\* was decoded.
C15_Witness ==
  /\ d_out.done
  /\ d_in.kind = "encoded"
  /\ Len(d_in.text) = 3
  /\ \E i \in 1..3 : d_in.text[i] = "\""
  /\ \E i \in 1..3 : d_in.text[i] = "\\"

\* The vector of the decoder's unit test is among the inputs: base64 of
\* "hello" is aGVsbG8= and decodes to {"value":"hello"}.
C15_TestVector ==
  /\ d_out.done
  /\ d_in.text = Str_hello
  /\ d_in.content = Str_payload_hello
  /\ d_out.content = << "{", "\"", "v", "a", "l", "u", "e", "\"", ":", "\"",
                        "h", "e", "l", "l", "o", "\"", "}" >>

\* The content is a JSON object with a string field "payload".
IsPayloadObject(x) ==
  /\ ParsePayload(x).ok
  /\ x[SkipWs(x, 1)] = "{"

\* The content is a payload object whose payload is base64 of UTF-8 text
\* whose characters all have code points in 0x20..0x7E.
CarriesPrintableText(x) ==
  /\ IsPayloadObject(x)
  /\ Base64Decode(ParsePayload(x).payload).ok
  /\ FromUtf8(Base64Decode(ParsePayload(x).payload).bytes).ok
  /\ \A cp \in { FromUtf8(Base64Decode(ParsePayload(x).payload).bytes).chars[i] :
                   i \in 1..Len(FromUtf8(Base64Decode(ParsePayload(x).payload).bytes).chars) } :
       cp >= 32 /\ cp <= 126

\* C16: decoder passthrough: a content that is not a JSON object with a
\* string payload, or whose payload is not base64, or whose bytes are not
\* UTF-8, or whose text has a character with a code point outside
\* 0x20..0x7E, is returned as it is.
C16_DecoderPassthrough ==
  (d_out.done /\ ~CarriesPrintableText(d_in.content)) =>
    d_out.content = d_in.content

\* C17: rowid as position: the rowid a cursor reports is its current
\* position, whatever open, filter and next calls came before; the rows of a
\* scan that reads every row are numbered 0, 1, 2, ... by their place in the
\* scan and not by a key of the entry.
C17_RowidIsPosition ==
  /\ (last.op = "rowid" /\ last.id # 0) =>
       last.rowid = cursors[last.id].reader.current_index
  /\ \A c \in 1..MaxCursors :
       ReadingAll(c) =>
         \A k \in 1..Len(scan[c].rows) : scan[c].rows[k].rowid = k - 1

\* C17 happens: the rowid 1 was reported for the second of two entries.
C17_Witness ==
  /\ last.op = "rowid"
  /\ last.id # 0
  /\ last.rowid = 1
  /\ Len(cursors[last.id].reader.data) = 2

\* C18: at a position i below the number of entries, column(ordinal) is the
\* i-th entry's time in decimal for ordinal 0, its content_type for ordinal
\* 1 and its content for every other ordinal; at a position at or past the
\* end it is the empty string for every ordinal.
C18_ColumnValue ==
  (last.op = "column" /\ last.id # 0) =>
    LET r == cursors[last.id].reader
        i == r.current_index
    IN  IF i < Len(r.data)
        THEN last.value =
               CASE last.ordinal = 0 -> to_string(r.data[i + 1].time)
                 [] last.ordinal = 1 -> r.data[i + 1].content_type
                 [] OTHER -> r.data[i + 1].content
        ELSE last.value = <<>>

\* C18 happens: an ordinal past the declared columns was read at the second
\* entry and gave its content.
C18_Witness ==
  /\ last.op = "column"
  /\ last.ordinal = 3
  /\ cursors[last.id].reader.current_index = 1
  /\ Len(cursors[last.id].reader.data) = 2
  /\ last.value = cursors[last.id].reader.data[2].content

\* C18 happens past the end: a column was read at a position past the last
\* entry and gave the empty string.
C18_WitnessPastEnd ==
  /\ last.op = "column"
  /\ last.id # 0
  /\ cursors[last.id].reader.current_index > Len(cursors[last.id].reader.data)
  /\ Len(cursors[last.id].reader.data) > 0
  /\ last.value = <<>>

\* C19: type inference: a cell is emitted as an integer exactly when its
\* string value parses as a signed 64-bit integer (with that integer), and
\* as text (that string) otherwise; the rule is the same for time,
\* content_type and content.
C19_TypeInference ==
  /\ (last.op = "column" /\ last.id # 0) =>
       /\ last.cell.type = "int" <=> ParseI64(last.value).ok
       /\ last.cell.type = "text" <=> ~ParseI64(last.value).ok
       /\ ParseI64(last.value).ok => last.cell.int = ParseI64(last.value).val
       /\ ~ParseI64(last.value).ok => last.cell.text = last.value
  /\ \A c \in 1..MaxCursors :
       Scanning(c) =>
         \A k \in 1..Len(scan[c].rows) :
           \A j \in 1..3 :
             \/ scan[c].rows[k].cells[j].type = "text"
                  /\ ~ParseI64(scan[c].rows[k].cells[j].text).ok
             \/ scan[c].rows[k].cells[j].type = "int"

\* C19 happens: a row whose content_type and content both look like numbers
\* was read, and time, content_type and content were all emitted as
\* integers.
C19_Witness ==
  \E c \in 1..MaxCursors :
    /\ Scanning(c)
    /\ Len(scan[c].rows) > 0
    /\ scan[c].rows[1].cells = << IntCell(700), IntCell(42), IntCell(-5) >>

\* C19 happens for text: the content_type of an entry was emitted as text.
C19_WitnessText ==
  /\ last.op = "column"
  /\ last.ordinal = 1
  /\ last.cell = TextCell(Str_application_json)

\* What a destroy, disconnect or close call leaves behind.
ReleaseResult ==
  /\ last.op \in {"destroy", "disconnect", "close"} =>
       /\ last.rc = SQLITE_OK
       /\ last.dropped = IF last.id = 0 THEN <<>> ELSE << last.id >>
  /\ (last.op \in {"destroy", "disconnect"} /\ last.id # 0) =>
       tables[last.id] = NoTable
  /\ (last.op = "close" /\ last.id # 0) => cursors[last.id] = NoCursor

\* The steps of destroy, disconnect and close change the released handle and
\* nothing else; on the null handle they change nothing.
ReleaseStep ==
  /\ last'.op \in {"destroy", "disconnect"} =>
       /\ tables' = [ t \in 1..MaxTables |->
                        IF t = last'.id THEN NoTable ELSE tables[t] ]
       /\ UNCHANGED << remote, requests, calls, cursors, pp_vtab, pz_err,
                       pp_cursor, scan >>
  /\ last'.op = "close" =>
       /\ cursors' = [ c \in 1..MaxCursors |->
                         IF c = last'.id THEN NoCursor ELSE cursors[c] ]
       /\ UNCHANGED << remote, requests, calls, tables, pp_vtab, pz_err >>

\* C20: destroy and disconnect release the table handle with its snapshot
\* and return OK, close does so for a cursor handle; on a null handle each
\* is a no-op returning OK, and a non-null handle is released exactly once
\* per call.
C20_ReleaseOnce == [](ReleaseResult) /\ [][ReleaseStep]_vars

\* C20 happens: a table whose create call fetched its snapshot was destroyed.
C20_Witness ==
  /\ last.op = "destroy"
  /\ last.id # 0
  /\ last.dropped = << last.id >>
  /\ tables[last.id] = NoTable
  /\ \E k \in 1..Len(requests) : requests[k].call = calls

\* C20 happens on null handles: disconnect was called with a null handle
\* while a table was held.
C20_WitnessNull ==
  /\ last.op = "disconnect"
  /\ last.id = 0
  /\ last.rc = SQLITE_OK
  /\ \E t \in 1..MaxTables : Held(t)

\* C21: when the remote source rejects the credentials, the open of a
\* create or connect fails with Auth; it fails with Request or Json only
\* when the transport of a request or the response parsing of the fetch
\* fails.
C21_AuthRejectedIsAuth ==
  IsCreate(last.op) =>
    /\ last.auth = "rejected" => (last.rc = SQLITE_ERROR /\ last.err = "Auth")
    /\ last.err \in {"RequestSend", "RequestDecode", "Json"} =>
         (last.auth = "transport" \/ last.fetch \in {"transport", "malformed"})

\* C22: the position i of every open cursor over a snapshot of length len
\* satisfies 0 <= i <= len, whatever next calls were made, those after eof
\* reported the end included.
C22_PositionWithinSnapshot ==
  \A c \in 1..MaxCursors :
    OpenCursor(c) =>
      /\ cursors[c].reader.current_index >= 0
      /\ cursors[c].reader.current_index <= Len(cursors[c].reader.data)

\* C23: cursors opened on one table have independent positions: a next, a
\* filter or a close on one cursor leaves every other cursor (its position
\* and the rows it reads) and the table's snapshot as they were, in every
\* interleaving; every open cursor reads the table's snapshot.
C23_IndependentCursors ==
  /\ [](\A c \in DOMAIN cursors :
          OpenCursor(c) => cursors[c].reader.data = tables[cursors[c].vtab].hd.data)
  /\ [][ \A c \in DOMAIN cursors :
           (last'.op \in {"next", "filter", "close"} /\ last'.id = c)
             => /\ \A b \in DOMAIN cursors \ {c} : cursors'[b] = cursors[b]
                /\ tables' = tables ]_vars

\* C23 happens: two cursors are open on the table of two entries, next was
\* just called on the first, which is at the end, and the second is at its
\* first row.
C23_Witness ==
  /\ DOMAIN cursors = 1..2
  /\ OpenCursor(1) /\ OpenCursor(2)
  /\ cursors[1].vtab = cursors[2].vtab
  /\ Len(cursors[1].reader.data) = 2
  /\ last.op = "next" /\ last.id = 1
  /\ cursors[1].reader.current_index = 2
  /\ cursors[2].reader.current_index = 0

\* C24: null-handle misuse is guarded at every entry point: open with a
\* null table handle, and filter, next, eof, column and rowid with a null
\* cursor handle, return without touching the handle, without a failure
\* status and without any effect.
C24_NullHandlesGuarded ==
  /\ [](( /\ last.op \in {"open", "filter", "next", "eof", "column", "rowid"}
          /\ last.id = 0 )
        => (last.ub = "none" /\ last.rc # SQLITE_ERROR))
  /\ [][ ( /\ last'.op \in {"open", "filter", "next", "eof", "column", "rowid"}
           /\ last'.id = 0 )
         => UNCHANGED << tables, cursors, pp_vtab, pp_cursor, pz_err >> ]_vars

\* C25: the index-selection callback reports no usable index: for every
\* table and every index-info it returns OK and leaves the index-info as the
\* engine passed it (no constraint marked as used, no index number or
\* string, no cost or row estimate set), so the engine plans a full scan.
C25_NoUsableIndex ==
  last.op = "best_index" =>
    /\ last.rc = SQLITE_OK
    /\ last.infoOut = last.info
    /\ last.infoOut.argvIndex = 0
    /\ ~last.infoOut.omit
    /\ last.infoOut.idxNum = 0
    /\ last.infoOut.idxStr = "null"
    /\ last.infoOut.cost = "default"
    /\ last.infoOut.rows = "default"

\* C25 happens: the callback was given an index-info with a usable
\* constraint.
C25_Witness ==
  /\ last.op = "best_index"
  /\ last.info.nConstraint = 1
  /\ last.info.usable
  /\ last.rc = SQLITE_OK

\* The create call on the parsed list with a remote that answers both
\* requests and holds no entries.
CreateOf(argv) ==
  shsqlite_create(argv,
    [now1 |-> p_now[1], now2 |-> p_now[2], auth |-> "ok", fetch |-> "ok",
     store |-> <<>>, mallocOk |-> TRUE, declareRc |-> SQLITE_OK])

C27_EngineArgsIgnored ==
  (p_res.done /\ Len(p_argv) >= Len(EngineArgs)) =>
    p_res.r = collect_options_from_args(
                SubSeq(p_argv, Len(EngineArgs) + 1, Len(p_argv)),
                p_now[1], p_now[2])

\* The form KEY 'value' or KEY "value": a key, whitespace, and a non-empty
\* value between two quotes of the same kind.
HasQuotedForm(arg) ==
  /\ RegexCaptures(arg).matched
  /\ arg[Len(arg) - Len(RegexCaptures(arg).value) - 1] = arg[Len(arg)]

\* C28: an argument is interpreted exactly when it has the form KEY 'value'
\* or KEY "value"; every other string (a mismatched quote pair, missing
\* quotes, an empty value, extra text) is skipped, so the result is that of
\* the arguments of this form alone.
C28_OnlyQuotedFormInterpreted ==
  p_res.done =>
    /\ \A i \in 1..Len(p_argv) :
         RegexCaptures(p_argv[i]).matched <=> HasQuotedForm(p_argv[i])
    /\ p_res.r = collect_options_from_args(SelectSeq(p_argv, HasQuotedForm),
                                           p_now[1], p_now[2])

\* The kinds of the requests that a create or connect call sent, in order.
KindsOf(call) ==
  LET Mine(r) == r.call = call
      Kinds(s) == [ k \in 1..Len(s) |-> s[k].kind ]
  IN  Kinds(SelectSeq(requests, Mine))

\* C29: no retries and a strict order within create/connect:
\* authentication is requested at most once and before the fetch, the fetch
\* at most once and only after authentication succeeded; when either
\* request fails the call returns the error status with no further request
\* sent and the schema not declared.
C29_NoRetryStrictOrder ==
  IsCreate(last.op) =>
    /\ KindsOf(last.id) \in { <<>>, <<"auth">>, <<"auth", "fetch">> }
    /\ KindsOf(last.id) = <<"auth", "fetch">> => last.auth = "ok"
    /\ last.auth \in {"rejected", "transport"} =>
         /\ KindsOf(last.id) = <<"auth">>
         /\ last.rc = SQLITE_ERROR
         /\ ~last.declared
    /\ last.fetch \in {"malformed", "transport"} =>
         /\ KindsOf(last.id) = <<"auth", "fetch">>
         /\ last.rc = SQLITE_ERROR
         /\ ~last.declared
    /\ last.declared => (last.auth = "ok" /\ last.fetch = "ok")

\* C29 happens: a create whose authentication was rejected came after a
\* create whose fetch failed, each having sent its requests once.
C29_Witness ==
  /\ last.op = "create"
  /\ last.id = 2
  /\ last.auth = "rejected"
  /\ KindsOf(1) = <<"auth", "fetch">>
  /\ KindsOf(2) = <<"auth">>
  /\ \A t \in 1..MaxTables : tables[t].state = "none"

\* C30: coverage selection is total and case-insensitive: with an IMSI
\* given, a list whose only COVERAGE argument has the value japan or jp (in
\* any case) selects the Japan endpoint, any other value (global, g,
\* anything else) the Global endpoint, as an absent COVERAGE does, and no
\* value makes the parse fail.
C30_CoverageSelection ==
  (p_res.done /\ KeyArgs(Key_imsi) # {}) =>
    /\ p_res.r.ok
    /\ KeyArgs(Key_coverage) = {} => p_res.r.endpoint = "Global"
    /\ \A i \in KeyArgs(Key_coverage) :
         KeyArgs(Key_coverage) = {i} =>
           p_res.r.endpoint =
             IF to_lowercase(ValueOf(i)) \in { <<"j","p">>, <<"j","a","p","a","n">> }
             THEN "Japan" ELSE "Global"

\* C30 happens: COVERAGE 'Jp' with an IMSI selected the Japan endpoint.
C30_Witness ==
  /\ p_res.done
  /\ p_res.r.ok
  /\ \E i \in 1..Len(p_argv) :
       /\ KeyArgs(Key_coverage) = {i}
       /\ ValueOf(i) = << "J", "p" >>
  /\ p_res.r.endpoint = "Japan"

\* C30 happens for an unknown value: COVERAGE 'x' with an IMSI selected the
\* Global endpoint.
C30_WitnessOther ==
  /\ p_res.done
  /\ p_res.r.ok
  /\ \E i \in 1..Len(p_argv) :
       KeyArgs(Key_coverage) = {i} /\ p_argv[i] = Arg_COVERAGE_x
  /\ p_res.r.endpoint = "Global"

\* C31: create/connect produces a table handle if and only if it returns
\* SQLITE_OK: after a call that returned another status, also one whose
\* fetch succeeded and whose declare_vtab failed, no VirtualTable has been
\* boxed and written to *pp_vtab; after a call that returned SQLITE_OK,
\* *pp_vtab is the handle of the table boxed by that call.
C31_HandleIffOk ==
  last.op \in {"create", "connect"} =>
    IF last.rc = SQLITE_OK
    THEN /\ pp_vtab # 0
         /\ tables[pp_vtab].state = "live"
         /\ tables[pp_vtab].call = last.id
    ELSE /\ pp_vtab = 0
         /\ \A t \in DOMAIN tables : tables[t].call # last.id

\* C32: when the engine's create_module succeeds, sqlite3_shsqlite_init
\* calls auto_extension (registering register_module) exactly once and
\* returns SQLITE_OK_LOAD_PERMANENTLY; when create_module fails it returns
\* an error status and never calls auto_extension.
C32_InitRegistersOnce ==
  \A k \in 1..Len(ext) :
    LET AutoCalls(load) ==
          Cardinality({ i \in 1..Len(load.calls) :
                          load.calls[i] = "auto_extension" })
    IN  IF ext[k].create_module = SQLITE_OK
        THEN /\ AutoCalls(ext[k]) = 1
             /\ ext[k].calls[Len(ext[k].calls)] = "auto_extension"
             /\ ext[k].rc = SQLITE_OK_LOAD_PERMANENTLY
        ELSE /\ AutoCalls(ext[k]) = 0
             /\ ext[k].rc \notin {SQLITE_OK, SQLITE_OK_LOAD_PERMANENTLY}

====
